---- MODULE Spec2Model ----
(***************************************************************************)
(* The chart-of-accounts engine of src/modules/account: the account table, *)
(* the journal (daily entries) and the transaction tables that reference   *)
(* accounts, with one action per request handler of services.py.           *)
(*                                                                         *)
(* Strings are sequences of one-character strings, so that strip(),        *)
(* lower(), substring tests, slicing and ORDER BY on codes are computed    *)
(* the way the Python code and the database compute them.  Account codes   *)
(* are strings of decimal digits.                                          *)
(***************************************************************************)
EXTENDS Integers, Sequences, FiniteSets, TLC

(***************************************************************************)
(* Bounds of the model.                                                    *)
(***************************************************************************)
\* Greatest account id the id sequence hands out.
MaxId == 5
\* Number of requests served in one behaviour of Spec.
MaxOps == 3
\* Number of requests and ledger events in one behaviour of SpecUsage.
MaxUsageOps == 3
\* Greatest account id and number of requests in one behaviour of SpecDeep.
MaxDeepId == 6
MaxDeepOps == 4
\* Greatest account id and number of requests in one behaviour of SpecRoots.
MaxRootId == 11
MaxRootOps == 11
\* Bounds of SpecRead: the tree service with its read operations.
MaxReadId == 5
MaxReadOps == 3
\* Bounds of SpecPolicy: creates and updates with every nature and type.
MaxPolicyId == 5
MaxPolicyOps == 2
\* Bounds of SpecDefaults: creates with every name the cost-center rules
\* look for.
MaxDefaultsId == 5
MaxDefaultsOps == 3
\* Bounds of SpecCc: the cost-center requirement.
MaxCcId == 5
MaxCcOps == 3
\* Bounds of SpecTotals: creates, journal entries and the tree with totals.
MaxTotalsId == 6
MaxTotalsOps == 4
\* Bounds of SpecCodes: sibling codes under a root and under a deeper parent.
MaxCodesId == 7
MaxCodesOps == 4
\* Bounds of SpecParents: the parent relation under create, update, delete.
MaxParentsId == 6
MaxParentsOps == 4
\* Bounds of SpecRace: concurrent requests, the greatest id, the number of
\* requests and the number of requests in flight at one time.
MaxRaceId == 6
MaxRaceOps == 3
MaxPending == 2

(***************************************************************************)
(* Python values.                                                          *)
(***************************************************************************)
\* None for a string-valued field (nature, account_type, a missing key).
None == <<"None">>
\* A key that is not in the request body.
Absent == <<"Absent">>
\* A value of the wrong Python type (a number where a string is expected).
NotAString == <<"NotAString">>
\* None for parent_id (roots) and for a request without parent.
NoneId == -1

Whitespace == {" ", "\t", "\n"}
UpperCase == <<"A","B","C","D","E","F","G","H","I","J","K","L","M",
               "N","O","P","Q","R","S","T","U","V","W","X","Y","Z">>
LowerCase == <<"a","b","c","d","e","f","g","h","i","j","k","l","m",
               "n","o","p","q","r","s","t","u","v","w","x","y","z">>

\* Every character that occurs in a string of the model.
Characters ==
  {UpperCase[i] : i \in DOMAIN UpperCase} \cup {LowerCase[i] : i \in DOMAIN LowerCase}
  \cup {"0","1","2","3","4","5","6","7","8","9","&","_"} \cup Whitespace

\* str.lower() on one character.
LowerChar ==
  [c \in Characters |->
     IF \E i \in DOMAIN UpperCase : UpperCase[i] = c
     THEN LowerCase[CHOOSE i \in DOMAIN UpperCase : UpperCase[i] = c]
     ELSE c]

\* str.lower()
Lower(s) == [i \in DOMAIN s |-> LowerChar[s[i]]]

\* str.strip(): drop leading and trailing whitespace.
Strip(s) ==
  LET keep == {i \in DOMAIN s : s[i] \notin Whitespace}
  IN IF keep = {} THEN <<>>
     ELSE LET lo == CHOOSE i \in keep : \A j \in keep : i <= j
              hi == CHOOSE i \in keep : \A j \in keep : j <= i
          IN SubSeq(s, lo, hi)

\* Python's `sub in s` for strings.
Contains(s, sub) ==
  \E i \in 1..(Len(s) - Len(sub) + 1) : SubSeq(s, i, i + Len(sub) - 1) = sub

\* str.endswith
EndsWith(s, suffix) ==
  /\ Len(s) >= Len(suffix)
  /\ SubSeq(s, Len(s) - Len(suffix) + 1, Len(s)) = suffix

\* s[-3:]
Last3(s) == IF Len(s) <= 3 THEN s ELSE SubSeq(s, Len(s) - 2, Len(s))

Digits == <<"0","1","2","3","4","5","6","7","8","9">>
DigitValue(c) == (CHOOSE i \in DOMAIN Digits : Digits[i] = c) - 1

\* int(s) for a string of decimal digits.
RECURSIVE ParseInt(_)
ParseInt(s) ==
  IF s = <<>> THEN 0
  ELSE 10 * ParseInt(SubSeq(s, 1, Len(s) - 1)) + DigitValue(s[Len(s)])

\* str(n) for n >= 0.
RECURSIVE ToStr(_)
ToStr(n) ==
  IF n < 10 THEN <<Digits[n + 1]>>
  ELSE Append(ToStr(n \div 10), Digits[(n % 10) + 1])

\* str.zfill(3)
RECURSIVE ZFill3(_)
ZFill3(s) == IF Len(s) >= 3 THEN s ELSE ZFill3(<<"0">> \o s)

\* The order of two characters; only digits occur in codes.
CharLess(a, b) == DigitValue(a) < DigitValue(b)

\* a < b in the database's string order (ORDER BY Account.code).
RECURSIVE StrLess(_, _)
StrLess(a, b) ==
  IF b = <<>> THEN FALSE
  ELSE IF a = <<>> THEN TRUE
  ELSE IF a[1] = b[1] THEN StrLess(Tail(a), Tail(b))
  ELSE CharLess(a[1], b[1])

(***************************************************************************)
(* String literals of the code.                                            *)
(***************************************************************************)
Assets == <<"A","s","s","e","t","s">>
LiabilityEquity ==
  <<"L","i","a","b","i","l","i","t","y"," ","&"," ","E","q","u","i","t","y">>
Expenses == <<"E","x","p","e","n","s","e","s">>
Revenue == <<"R","e","v","e","n","u","e">>
assets_lc == <<"a","s","s","e","t","s">>
liability_equity_lc ==
  <<"l","i","a","b","i","l","i","t","y"," ","&"," ","e","q","u","i","t","y">>
expenses_lc == <<"e","x","p","e","n","s","e","s">>
revenue_lc == <<"r","e","v","e","n","u","e">>
debit == <<"d","e","b","i","t">>
credit == <<"c","r","e","d","i","t">>
both == <<"b","o","t","h">>
balance_sheet == <<"b","a","l","a","n","c","e","_","s","h","e","e","t">>
pnl == <<"p","&","l">>
EmptyStr == <<>>
depreciation == <<"d","e","p","r","e","c","i","a","t","i","o","n">>
bank_charges == <<"b","a","n","k"," ","c","h","a","r","g","e","s">>
cost_of_goods_sold ==
  <<"c","o","s","t"," ","o","f"," ","g","o","o","d","s"," ","s","o","l","d">>
rebate == <<"r","e","b","a","t","e">>

(***************************************************************************)
(* State.                                                                  *)
(***************************************************************************)
VARIABLES
  accounts,   \* the committed rows of the Account table
  nextId,     \* the next value of the Account id sequence
  journal,    \* the committed rows of DailyEntries
  txns,       \* rows of the sales/purchase/expense transaction tables
  ops,        \* number of requests served so far
  last,       \* the last request served and its response
  view,       \* the body of the response to the last read request
  readAt,     \* the value of ops right after the last read request
  pending,    \* requests that have made their reads and not yet committed
  schema      \* the constraints the Account table is created with

vars == <<accounts, nextId, journal, txns, ops, last, view, readAt, pending, schema>>

Ids(store) == {a.id : a \in store}
ById(store, id) == CHOOSE a \in store : a.id = id

\* session.query(Account).filter_by(parent_id=account.id)
Children(store, id) == {a \in store : a.parent_id = id}

\* session.query(Account).filter_by(parent_id=None)
Roots(store) == {a \in store : a.parent_id = NoneId}

\* ... .order_by(Account.code.desc()).first() over a non-empty set of rows
LastByCode(rows) == CHOOSE a \in rows : \A b \in rows : ~StrLess(a.code, b.code)

\* generate_code numbering a child by the count of its siblings.
generate_code_counting_siblings(store, parent_id) ==
  IF parent_id = NoneId
  THEN IF Roots(store) # {}
       THEN LET last_sibling == LastByCode(Roots(store))
                root_num == (ParseInt(last_sibling.code) \div 1000) + 1
            IN ToStr(root_num * 1000)
       ELSE <<"1","0","0","0">>
  ELSE LET parent_code == ById(store, parent_id).code
           new_suffix == ZFill3(ToStr(Cardinality(Children(store, parent_id)) + 1))
       IN IF Len(parent_code) = 4 /\ EndsWith(parent_code, <<"0","0","0">>)
          THEN <<parent_code[1]>> \o new_suffix
          ELSE parent_code \o new_suffix

\* generate_code(session, parent); parent = None is passed as NoneId.
generate_code(store, parent_id) ==
  IF parent_id = NoneId
  THEN IF Roots(store) # {}
       THEN LET last_sibling == LastByCode(Roots(store))
                root_num == (ParseInt(last_sibling.code) \div 1000) + 1
            IN ToStr(root_num * 1000)
       ELSE <<"1","0","0","0">>
  ELSE LET parent_code == ById(store, parent_id).code
           siblings == Children(store, parent_id)
       IN IF siblings # {}
          THEN LET last_sibling == LastByCode(siblings)
                   last_suffix == ParseInt(Last3(last_sibling.code))
                   new_suffix == ZFill3(ToStr(last_suffix + 1))
               IN IF Len(parent_code) = 4 /\ EndsWith(parent_code, <<"0","0","0">>)
                  THEN <<parent_code[1]>> \o new_suffix
                  ELSE parent_code \o new_suffix
          ELSE IF Len(parent_code) = 4 /\ EndsWith(parent_code, <<"0","0","0">>)
               THEN <<parent_code[1]>> \o <<"0","0","1">>
               ELSE parent_code \o <<"0","0","1">>

\* root_accounts with Expenses before Liability & Equity.
root_accounts_expenses_second ==
  << [name |-> Assets, nature |-> debit, account_type |-> balance_sheet,
      cc_required |-> FALSE],
     [name |-> Expenses, nature |-> debit, account_type |-> pnl,
      cc_required |-> FALSE],
     [name |-> LiabilityEquity, nature |-> credit, account_type |-> balance_sheet,
      cc_required |-> FALSE],
     [name |-> Revenue, nature |-> credit, account_type |-> pnl,
      cc_required |-> FALSE] >>

\* The root_accounts dict of validate_root_accounts, in iteration order.
root_accounts ==
  << [name |-> Assets, nature |-> debit, account_type |-> balance_sheet,
      cc_required |-> FALSE],
     [name |-> LiabilityEquity, nature |-> credit, account_type |-> balance_sheet,
      cc_required |-> FALSE],
     [name |-> Expenses, nature |-> debit, account_type |-> pnl,
      cc_required |-> FALSE],
     [name |-> Revenue, nature |-> credit, account_type |-> pnl,
      cc_required |-> FALSE] >>

\* EnsureRoot giving an existing root a new code as well.
EnsureRoot_recoding(s, props) ==
  LET found == {a \in s.store : a.name = props.name /\ a.parent_id = NoneId}
  IN IF found = {}
     THEN [store |-> s.store \cup
                     {[id |-> s.nextId, name |-> props.name,
                       code |-> generate_code(s.store, NoneId),
                       parent_id |-> NoneId, nature |-> props.nature,
                       cc_required |-> props.cc_required,
                       account_type |-> props.account_type]},
           nextId |-> s.nextId + 1]
     ELSE LET account == CHOOSE a \in found : TRUE
          IN [store |-> (s.store \ {account}) \cup
                         {[account EXCEPT !.account_type = props.account_type,
                                          !.cc_required = props.cc_required,
                                          !.code = generate_code(s.store, NoneId)]},
              nextId |-> s.nextId]

\* One iteration of the loop of validate_root_accounts on the session state
\* s = [store, nextId].
EnsureRoot(s, props) ==
  LET found == {a \in s.store : a.name = props.name /\ a.parent_id = NoneId}
  IN IF found = {}
     THEN [store |-> s.store \cup
                     {[id |-> s.nextId, name |-> props.name,
                       code |-> generate_code(s.store, NoneId),
                       parent_id |-> NoneId, nature |-> props.nature,
                       cc_required |-> props.cc_required,
                       account_type |-> props.account_type]},
           nextId |-> s.nextId + 1]
     ELSE LET account == CHOOSE a \in found : TRUE
          IN [store |-> (s.store \ {account}) \cup
                         {[account EXCEPT !.account_type = props.account_type,
                                          !.cc_required = props.cc_required]},
              nextId |-> s.nextId]

RECURSIVE EnsureRoots(_, _)
EnsureRoots(s, i) ==
  IF i > Len(root_accounts) THEN s
  ELSE EnsureRoots(EnsureRoot(s, root_accounts[i]), i + 1)

\* validate_root_accounts(session): the loop, then session.commit().
validate_root_accounts(s) == EnsureRoots(s, 1)

\* check_if_account_exist: TRUE when AccountExistsException is raised.
check_if_account_exist(store, name) ==
  \E a \in store : Lower(a.name) = Lower(name)

\* get_root_account(session, account)
RECURSIVE get_root_account(_, _)
get_root_account(store, account) ==
  IF account.parent_id = NoneId THEN account
  ELSE get_root_account(store, ById(store, account.parent_id))

(***************************************************************************)
(* create: AccountResource.post and create_account_in_account_tree.        *)
(* A request body is [parent_id, name, nature, cc_required, account_type]; *)
(* cc_required is "True", "False", "NotABool" or "Absent".                 *)
(***************************************************************************)
\* Python truthiness of a string-or-None value.
Truthy(x) == x # None /\ x # EmptyStr

\* extract_body(body): [error, name, parent_id, nature, cc_required, account_type]
extract_body(body) ==
  LET nature == IF body.nature = Absent THEN None
                ELSE IF body.nature \in {None, NotAString} THEN NotAString
                ELSE Lower(Strip(body.nature))
      account_type == IF body.account_type = Absent THEN None ELSE body.account_type
      error ==
        IF nature = NotAString THEN "DatabaseError"
        ELSE IF Truthy(nature) /\ nature \notin {debit, credit, both} THEN "BadNature"
        ELSE IF Truthy(account_type) /\ account_type \notin {balance_sheet, pnl}
             THEN "BadAccountType"
        ELSE IF body.name \in {Absent, None, NotAString} THEN "DatabaseError"
        ELSE "none"
  IN [error |-> error,
      name |-> IF error = "none" THEN Strip(body.name) ELSE <<>>,
      parent_id |-> body.parent_id,
      nature |-> nature,
      cc_required |-> (body.cc_required = "True"),
      account_type |-> account_type]

\* apply_root_rules accepting the nature `both` under Assets.
apply_root_rules_accepting_both(root_name, nature, account_type) ==
  IF Lower(root_name) = assets_lc
  THEN IF Truthy(nature) /\ nature \notin {debit, both}
       THEN [error |-> "NatureConflict", nature |-> nature, account_type |-> account_type]
       ELSE IF Truthy(account_type) /\ account_type # balance_sheet
       THEN [error |-> "TypeConflict", nature |-> debit, account_type |-> account_type]
       ELSE [error |-> "none", nature |-> debit, account_type |-> balance_sheet]
  ELSE IF Lower(root_name) = liability_equity_lc
  THEN IF Truthy(nature) /\ nature # credit
       THEN [error |-> "NatureConflict", nature |-> nature, account_type |-> account_type]
       ELSE IF Truthy(account_type) /\ account_type # balance_sheet
       THEN [error |-> "TypeConflict", nature |-> credit, account_type |-> account_type]
       ELSE [error |-> "none", nature |-> credit, account_type |-> balance_sheet]
  ELSE IF Lower(root_name) = expenses_lc
  THEN LET n == IF ~Truthy(nature) THEN debit ELSE nature
       IN IF Truthy(account_type) /\ account_type # pnl
          THEN [error |-> "TypeConflict", nature |-> n, account_type |-> account_type]
          ELSE [error |-> "none", nature |-> n, account_type |-> pnl]
  ELSE IF Lower(root_name) = revenue_lc
  THEN LET n == IF ~Truthy(nature) THEN credit ELSE nature
       IN IF Truthy(account_type) /\ account_type # pnl
          THEN [error |-> "TypeConflict", nature |-> n, account_type |-> account_type]
          ELSE [error |-> "none", nature |-> n, account_type |-> pnl]
  ELSE [error |-> "none", nature |-> nature, account_type |-> account_type]

\* apply_root_rules without the Assets rule.
apply_root_rules_without_assets(root_name, nature, account_type) ==
  IF Lower(root_name) = liability_equity_lc
  THEN IF Truthy(nature) /\ nature # credit
       THEN [error |-> "NatureConflict", nature |-> nature, account_type |-> account_type]
       ELSE IF Truthy(account_type) /\ account_type # balance_sheet
       THEN [error |-> "TypeConflict", nature |-> credit, account_type |-> account_type]
       ELSE [error |-> "none", nature |-> credit, account_type |-> balance_sheet]
  ELSE IF Lower(root_name) = expenses_lc
  THEN LET n == IF ~Truthy(nature) THEN debit ELSE nature
       IN IF Truthy(account_type) /\ account_type # pnl
          THEN [error |-> "TypeConflict", nature |-> n, account_type |-> account_type]
          ELSE [error |-> "none", nature |-> n, account_type |-> pnl]
  ELSE IF Lower(root_name) = revenue_lc
  THEN LET n == IF ~Truthy(nature) THEN credit ELSE nature
       IN IF Truthy(account_type) /\ account_type # pnl
          THEN [error |-> "TypeConflict", nature |-> n, account_type |-> account_type]
          ELSE [error |-> "none", nature |-> n, account_type |-> pnl]
  ELSE [error |-> "none", nature |-> nature, account_type |-> account_type]

\* The nature/account_type rules of create_account_in_account_tree for a
\* root account named root_name: [error, nature, account_type].
apply_root_rules(root_name, nature, account_type) ==
  IF Lower(root_name) = assets_lc
  THEN IF Truthy(nature) /\ nature # debit
       THEN [error |-> "NatureConflict", nature |-> nature, account_type |-> account_type]
       ELSE IF Truthy(account_type) /\ account_type # balance_sheet
       THEN [error |-> "TypeConflict", nature |-> debit, account_type |-> account_type]
       ELSE [error |-> "none", nature |-> debit, account_type |-> balance_sheet]
  ELSE IF Lower(root_name) = liability_equity_lc
  THEN IF Truthy(nature) /\ nature # credit
       THEN [error |-> "NatureConflict", nature |-> nature, account_type |-> account_type]
       ELSE IF Truthy(account_type) /\ account_type # balance_sheet
       THEN [error |-> "TypeConflict", nature |-> credit, account_type |-> account_type]
       ELSE [error |-> "none", nature |-> credit, account_type |-> balance_sheet]
  ELSE IF Lower(root_name) = expenses_lc
  THEN LET n == IF ~Truthy(nature) THEN debit ELSE nature
       IN IF Truthy(account_type) /\ account_type # pnl
          THEN [error |-> "TypeConflict", nature |-> n, account_type |-> account_type]
          ELSE [error |-> "none", nature |-> n, account_type |-> pnl]
  ELSE IF Lower(root_name) = revenue_lc
  THEN LET n == IF ~Truthy(nature) THEN credit ELSE nature
       IN IF Truthy(account_type) /\ account_type # pnl
          THEN [error |-> "TypeConflict", nature |-> n, account_type |-> account_type]
          ELSE [error |-> "none", nature |-> n, account_type |-> pnl]
  ELSE [error |-> "none", nature |-> nature, account_type |-> account_type]

\* fill_new_account_info without the exemption of depreciation and bank
\* charges.
fill_new_account_info_without_exemption(store, id, name, nature, parent, cc_required, account_type) ==
  LET root_name == get_root_account(store, parent).name
      inferred_type ==
        IF account_type = None
        THEN IF root_name \in {Assets, LiabilityEquity} THEN balance_sheet
             ELSE IF root_name \in {Revenue, Expenses} THEN pnl
             ELSE account_type
        ELSE account_type
      by_root == IF root_name = Expenses THEN TRUE ELSE cc_required
      by_name ==
        IF Contains(Lower(name), cost_of_goods_sold) \/ Contains(Lower(name), rebate)
        THEN TRUE ELSE by_root
  IN [id |-> id, name |-> name,
      code |-> generate_code(store, parent.id),
      parent_id |-> parent.id, nature |-> nature,
      cc_required |-> IF cc_required = FALSE THEN by_name ELSE cc_required,
      account_type |-> inferred_type]

\* fill_new_account_info(session, name, nature, parent, cc_required, account_type)
\* for an existing parent; id is the id the insert will assign.
fill_new_account_info(store, id, name, nature, parent, cc_required, account_type) ==
  LET root_name == get_root_account(store, parent).name
      inferred_type ==
        IF account_type = None
        THEN IF root_name \in {Assets, LiabilityEquity} THEN balance_sheet
             ELSE IF root_name \in {Revenue, Expenses} THEN pnl
             ELSE account_type
        ELSE account_type
      by_root ==
        IF root_name = Expenses
           /\ ~Contains(Lower(name), depreciation)
           /\ ~Contains(Lower(name), bank_charges)
        THEN TRUE ELSE cc_required
      by_name ==
        IF Contains(Lower(name), cost_of_goods_sold) \/ Contains(Lower(name), rebate)
        THEN TRUE ELSE by_root
  IN [id |-> id, name |-> name,
      code |-> generate_code(store, parent.id),
      parent_id |-> parent.id, nature |-> nature,
      cc_required |-> IF cc_required = FALSE THEN by_name ELSE cc_required,
      account_type |-> inferred_type]

\* create_account_in_account_tree(session, body) on the committed state
\* s = [store, nextId]: [result, store, nextId] with the state it commits.
create_account_in_account_tree(s, body) ==
  LET s1 == validate_root_accounts(s)
      b == extract_body(body)
      failed(r) == [result |-> r, store |-> s1.store, nextId |-> s1.nextId]
  IN IF b.error # "none" THEN failed(b.error)
     ELSE IF check_if_account_exist(s1.store, b.name) THEN failed("AccountExists")
     ELSE IF b.parent_id = NoneId THEN failed("NoParent")
     ELSE IF b.parent_id # 0 /\ b.parent_id \notin Ids(s1.store)
          THEN failed("ParentNotFound")
     ELSE IF b.parent_id = 0 THEN failed("DatabaseError")
     ELSE LET parent == ById(s1.store, b.parent_id)
              root_account == get_root_account(s1.store, parent)
              r == apply_root_rules(root_account.name, b.nature, b.account_type)
          IN IF r.error # "none" THEN failed(r.error)
             ELSE [result |-> "Created",
                   store |-> s1.store \cup
                     {fill_new_account_info(s1.store, s1.nextId, b.name, r.nature,
                                            parent, b.cc_required, r.account_type)},
                   nextId |-> s1.nextId + 1]

\* AccountResource.post with the handler's checks made after the call.
AccountResource_post_checking_late(s, body) ==
  LET r == create_account_in_account_tree(s, body)
  IN IF body.cc_required = "NotABool"
     THEN [result |-> "InvalidCcRequired", store |-> r.store, nextId |-> r.nextId]
     ELSE IF body.account_type \notin {Absent, None, EmptyStr, balance_sheet, pnl}
     THEN [result |-> "InvalidAccountType", store |-> r.store, nextId |-> r.nextId]
     ELSE r

\* AccountResource.post: the two checks of the handler, then the call above.
AccountResource_post(s, body) ==
  IF body.cc_required = "NotABool"
  THEN [result |-> "InvalidCcRequired", store |-> s.store, nextId |-> s.nextId]
  ELSE IF body.account_type \notin {Absent, None, EmptyStr, balance_sheet, pnl}
  THEN [result |-> "InvalidAccountType", store |-> s.store, nextId |-> s.nextId]
  ELSE create_account_in_account_tree(s, body)

(***************************************************************************)
(* update: AccountResourceUpdate.put and update_account.                   *)
(* update_fields is [name, cc_required, account_type], Absent for a key    *)
(* that is not in the request.                                             *)
(***************************************************************************)
\* session.query(DailyEntries).filter(or_(debit == name, credit == name)).count()
related_entries(entries, name) ==
  Cardinality({e \in entries : e.debit = name \/ e.credit = name})

\* session.query(<kind>Transaction).filter_by(account_id=id).count()
transaction_count(rows, kind, id) ==
  Cardinality({t \in rows : t.kind = kind /\ t.account_id = id})

\* update_name without the look-up of journal entries.
update_name_ignoring_entries(store, entries, u, update_fields) ==
  IF update_fields.name = Absent THEN u
  ELSE IF update_fields.name \in {None, NotAString}
  THEN [u EXCEPT !.error = "NameNotString"]
  ELSE LET new_name == Strip(update_fields.name)
       IN IF new_name = EmptyStr THEN [u EXCEPT !.error = "NameEmpty"]
          ELSE IF Lower(u.account.name) # Lower(new_name)
          THEN IF check_if_account_exist(store, new_name)
               THEN [u EXCEPT !.error = "AccountExists"]
               ELSE [u EXCEPT !.account.name = new_name,
                              !.changes = Append(@, "name")]
          ELSE u

\* update_name comparing the new name with the current one case-sensitively.
update_name_case_sensitive(store, entries, u, update_fields) ==
  IF update_fields.name = Absent THEN u
  ELSE IF update_fields.name \in {None, NotAString}
  THEN [u EXCEPT !.error = "NameNotString"]
  ELSE LET new_name == Strip(update_fields.name)
       IN IF new_name = EmptyStr THEN [u EXCEPT !.error = "NameEmpty"]
          ELSE IF u.account.name # new_name
          THEN IF related_entries(entries, u.account.name) > 0
               THEN [u EXCEPT !.error = "NameInUse"]
               ELSE IF check_if_account_exist(store, new_name)
               THEN [u EXCEPT !.error = "AccountExists"]
               ELSE [u EXCEPT !.account.name = new_name,
                              !.changes = Append(@, "name")]
          ELSE u

\* The `name` block of update_account on the session's copy of the row:
\* u = [error, account, changes].
update_name(store, entries, u, update_fields) ==
  IF update_fields.name = Absent THEN u
  ELSE IF update_fields.name \in {None, NotAString}
  THEN [u EXCEPT !.error = "NameNotString"]
  ELSE LET new_name == Strip(update_fields.name)
       IN IF new_name = EmptyStr THEN [u EXCEPT !.error = "NameEmpty"]
          ELSE IF Lower(u.account.name) # Lower(new_name)
          THEN IF related_entries(entries, u.account.name) > 0
               THEN [u EXCEPT !.error = "NameInUse"]
               ELSE IF check_if_account_exist(store, new_name)
               THEN [u EXCEPT !.error = "AccountExists"]
               ELSE [u EXCEPT !.account.name = new_name,
                              !.changes = Append(@, "name")]
          ELSE u

\* update_cc_required without the look-up of purchase transactions.
update_cc_required_ignoring_purchases(rows, u, update_fields) ==
  IF u.error # "none" \/ update_fields.cc_required = "Absent" THEN u
  ELSE IF update_fields.cc_required = "NotABool"
  THEN [u EXCEPT !.error = "CcNotBool"]
  ELSE LET cc_required == (update_fields.cc_required = "True")
           is_purchase_or_expense ==
             transaction_count(rows, "expense", u.account.id) > 0
           is_cogs_or_rebate ==
             \/ Contains(Lower(u.account.name), cost_of_goods_sold)
             \/ Contains(Lower(u.account.name), rebate)
       IN IF u.account.cc_required # cc_required
          THEN IF ~cc_required /\ u.account.cc_required
                  /\ (is_purchase_or_expense \/ is_cogs_or_rebate)
               THEN [u EXCEPT !.error = "CcLocked"]
               ELSE [u EXCEPT !.account.cc_required = cc_required,
                              !.changes = Append(@, "cost center requirement")]
          ELSE u

\* update_cc_required without the entry in `changes`.
update_cc_required_unreported(rows, u, update_fields) ==
  IF u.error # "none" \/ update_fields.cc_required = "Absent" THEN u
  ELSE IF update_fields.cc_required = "NotABool"
  THEN [u EXCEPT !.error = "CcNotBool"]
  ELSE LET cc_required == (update_fields.cc_required = "True")
           is_purchase_or_expense ==
             \/ transaction_count(rows, "purchase", u.account.id) > 0
             \/ transaction_count(rows, "expense", u.account.id) > 0
           is_cogs_or_rebate ==
             \/ Contains(Lower(u.account.name), cost_of_goods_sold)
             \/ Contains(Lower(u.account.name), rebate)
       IN IF u.account.cc_required # cc_required
          THEN IF ~cc_required /\ u.account.cc_required
                  /\ (is_purchase_or_expense \/ is_cogs_or_rebate)
               THEN [u EXCEPT !.error = "CcLocked"]
               ELSE [u EXCEPT !.account.cc_required = cc_required]
          ELSE u

\* The `cc_required` block of update_account.
update_cc_required(rows, u, update_fields) ==
  IF u.error # "none" \/ update_fields.cc_required = "Absent" THEN u
  ELSE IF update_fields.cc_required = "NotABool"
  THEN [u EXCEPT !.error = "CcNotBool"]
  ELSE LET cc_required == (update_fields.cc_required = "True")
           is_purchase_or_expense ==
             \/ transaction_count(rows, "purchase", u.account.id) > 0
             \/ transaction_count(rows, "expense", u.account.id) > 0
           is_cogs_or_rebate ==
             \/ Contains(Lower(u.account.name), cost_of_goods_sold)
             \/ Contains(Lower(u.account.name), rebate)
       IN IF u.account.cc_required # cc_required
          THEN IF ~cc_required /\ u.account.cc_required
                  /\ (is_purchase_or_expense \/ is_cogs_or_rebate)
               THEN [u EXCEPT !.error = "CcLocked"]
               ELSE [u EXCEPT !.account.cc_required = cc_required,
                              !.changes = Append(@, "cost center requirement")]
          ELSE u

\* The `account_type` block of update_account.
update_account_type(store, u, update_fields) ==
  IF u.error # "none" \/ update_fields.account_type = Absent THEN u
  ELSE IF update_fields.account_type \in {None, EmptyStr}
  THEN IF u.account.account_type # None
       THEN [u EXCEPT !.account.account_type = None,
                      !.changes = Append(@, "account type")]
       ELSE u
  ELSE IF update_fields.account_type = NotAString
  THEN [u EXCEPT !.error = "TypeNotString"]
  ELSE LET new_account_type == Strip(update_fields.account_type)
       IN IF new_account_type \notin {balance_sheet, pnl}
          THEN [u EXCEPT !.error = "TypeInvalid"]
          ELSE IF u.account.account_type # new_account_type
          THEN LET root_account == get_root_account(store, u.account)
               IN IF \/ /\ new_account_type = balance_sheet
                        /\ root_account.name \notin {Assets, LiabilityEquity}
                     \/ /\ new_account_type = pnl
                        /\ root_account.name \notin {Revenue, Expenses}
                  THEN [u EXCEPT !.error = "TypeRootMismatch"]
                  ELSE [u EXCEPT !.account.account_type = new_account_type,
                                 !.changes = Append(@, "account type")]
          ELSE u

\* update_account(session, account_id, update_fields):
\* [result, changes, account] where account is the session's copy of the row
\* when the function returns or raises.
update_account(store, entries, rows, account_id, update_fields) ==
  IF account_id \notin Ids(store)
  THEN [result |-> "AccountNotFound", changes |-> <<>>, account |-> None]
  ELSE LET u0 == [error |-> "none", account |-> ById(store, account_id),
                  changes |-> <<>>]
           u1 == update_name(store, entries, u0, update_fields)
           u2 == update_cc_required(rows, u1, update_fields)
           u3 == update_account_type(store, u2, update_fields)
       IN [result |-> IF u3.error # "none" THEN u3.error
                      ELSE IF u3.changes = <<>> THEN "NoChanges"
                      ELSE "Updated",
           changes |-> u3.changes,
           account |-> u3.account]

\* AccountResourceUpdate.put committing the session also when update_account
\* raises.
AccountResourceUpdate_put_always_committing(store, entries, rows, account_id, update_fields) ==
  IF /\ update_fields.name = Absent
     /\ update_fields.cc_required = "Absent"
     /\ update_fields.account_type = Absent
  THEN [result |-> "NoValidFields", changes |-> <<>>, store |-> store]
  ELSE LET r == update_account(store, entries, rows, account_id, update_fields)
       IN [result |-> r.result, changes |-> r.changes,
           store |-> IF account_id \in Ids(store)
                     THEN (store \ {ById(store, account_id)}) \cup {r.account}
                     ELSE store]

\* AccountResourceUpdate.put: [result, changes, store], store being the table
\* after the `with session:` block: the commit of update_account when it
\* returns with changes, the rows as they were when it raises (the session
\* is closed without a commit).
AccountResourceUpdate_put(store, entries, rows, account_id, update_fields) ==
  IF /\ update_fields.name = Absent
     /\ update_fields.cc_required = "Absent"
     /\ update_fields.account_type = Absent
  THEN [result |-> "NoValidFields", changes |-> <<>>, store |-> store]
  ELSE LET r == update_account(store, entries, rows, account_id, update_fields)
       IN [result |-> r.result, changes |-> r.changes,
           store |-> IF r.result = "Updated"
                     THEN (store \ {ById(store, account_id)}) \cup {r.account}
                     ELSE store]

(***************************************************************************)
(* delete: AccountResourceUpdate.delete and delete_account.                *)
(***************************************************************************)
\* delete_account without the look-up of expense transactions.
delete_account_ignoring_expenses(store, entries, rows, account_id) ==
  IF account_id \notin Ids(store)
  THEN [result |-> "AccountNotFound", store |-> store]
  ELSE LET account == ById(store, account_id)
       IN IF Cardinality(Children(store, account.id)) > 0
          THEN [result |-> "IsParent", store |-> store]
          ELSE IF related_entries(entries, account.name) > 0
          THEN [result |-> "UsedInEntries", store |-> store]
          ELSE IF transaction_count(rows, "sales", account.id) > 0
          THEN [result |-> "UsedInSales", store |-> store]
          ELSE IF transaction_count(rows, "purchase", account.id) > 0
          THEN [result |-> "UsedInPurchase", store |-> store]
          ELSE [result |-> "Deleted", store |-> store \ {account}]

\* delete_account without the look-up of journal entries.
delete_account_ignoring_entries(store, entries, rows, account_id) ==
  IF account_id \notin Ids(store)
  THEN [result |-> "AccountNotFound", store |-> store]
  ELSE LET account == ById(store, account_id)
       IN IF Cardinality(Children(store, account.id)) > 0
          THEN [result |-> "IsParent", store |-> store]
          ELSE IF transaction_count(rows, "sales", account.id) > 0
          THEN [result |-> "UsedInSales", store |-> store]
          ELSE IF transaction_count(rows, "purchase", account.id) > 0
          THEN [result |-> "UsedInPurchase", store |-> store]
          ELSE IF transaction_count(rows, "expense", account.id) > 0
          THEN [result |-> "UsedInExpense", store |-> store]
          ELSE [result |-> "Deleted", store |-> store \ {account}]

\* delete_account removing the last sibling by code in place of the account
\* asked for.
delete_account_removing_last_sibling(store, entries, rows, account_id) ==
  IF account_id \notin Ids(store)
  THEN [result |-> "AccountNotFound", store |-> store]
  ELSE LET account == ById(store, account_id)
           last_sibling == LastByCode(Children(store, account.parent_id))
       IN IF Cardinality(Children(store, account.id)) > 0
          THEN [result |-> "IsParent", store |-> store]
          ELSE IF related_entries(entries, account.name) > 0
          THEN [result |-> "UsedInEntries", store |-> store]
          ELSE IF transaction_count(rows, "sales", account.id) > 0
          THEN [result |-> "UsedInSales", store |-> store]
          ELSE IF transaction_count(rows, "purchase", account.id) > 0
          THEN [result |-> "UsedInPurchase", store |-> store]
          ELSE IF transaction_count(rows, "expense", account.id) > 0
          THEN [result |-> "UsedInExpense", store |-> store]
          ELSE [result |-> "Deleted",
                store |-> IF Children(store, last_sibling.id) = {}
                          THEN store \ {last_sibling} ELSE store \ {account}]

\* delete_account without the look-up of child accounts.
delete_account_ignoring_children(store, entries, rows, account_id) ==
  IF account_id \notin Ids(store)
  THEN [result |-> "AccountNotFound", store |-> store]
  ELSE LET account == ById(store, account_id)
       IN IF related_entries(entries, account.name) > 0
          THEN [result |-> "UsedInEntries", store |-> store]
          ELSE IF transaction_count(rows, "sales", account.id) > 0
          THEN [result |-> "UsedInSales", store |-> store]
          ELSE IF transaction_count(rows, "purchase", account.id) > 0
          THEN [result |-> "UsedInPurchase", store |-> store]
          ELSE IF transaction_count(rows, "expense", account.id) > 0
          THEN [result |-> "UsedInExpense", store |-> store]
          ELSE [result |-> "Deleted", store |-> store \ {account}]

\* delete_account(session, account_id): [result, store]
delete_account(store, entries, rows, account_id) ==
  IF account_id \notin Ids(store)
  THEN [result |-> "AccountNotFound", store |-> store]
  ELSE LET account == ById(store, account_id)
       IN IF Cardinality(Children(store, account.id)) > 0
          THEN [result |-> "IsParent", store |-> store]
          ELSE IF related_entries(entries, account.name) > 0
          THEN [result |-> "UsedInEntries", store |-> store]
          ELSE IF transaction_count(rows, "sales", account.id) > 0
          THEN [result |-> "UsedInSales", store |-> store]
          ELSE IF transaction_count(rows, "purchase", account.id) > 0
          THEN [result |-> "UsedInPurchase", store |-> store]
          ELSE IF transaction_count(rows, "expense", account.id) > 0
          THEN [result |-> "UsedInExpense", store |-> store]
          ELSE [result |-> "Deleted", store |-> store \ {account}]

(***************************************************************************)
(* The commits of create and delete, for requests that run concurrently:   *)
(* a request makes its reads and checks on the committed state of that     *)
(* moment and commits later, other requests committing in between.         *)
(***************************************************************************)
\* add_and_commit with no constraint on the table.
add_and_commit_unconstrained(constraints, s, new_account) ==
  [result |-> "Created",
   store |-> s.store \cup {[new_account EXCEPT !.id = s.nextId]},
   nextId |-> s.nextId + 1]

\* add_and_commit(session, new_account): the INSERT gets the next id of the
\* sequence; it fails on a constraint of the table the row violates, and the
\* handler answers with the database error.
add_and_commit(constraints, s, new_account) ==
  IF constraints.unique_code /\ \E a \in s.store : a.code = new_account.code
  THEN [result |-> "DatabaseError", store |-> s.store, nextId |-> s.nextId]
  ELSE IF constraints.foreign_key /\ new_account.parent_id \notin Ids(s.store)
  THEN [result |-> "DatabaseError", store |-> s.store, nextId |-> s.nextId]
  ELSE [result |-> "Created",
        store |-> s.store \cup {[new_account EXCEPT !.id = s.nextId]},
        nextId |-> s.nextId + 1]

\* session.delete(account); session.commit() of delete_account: the DELETE
\* fails when the row is gone or when an enforced foreign key still points
\* to it.
delete_and_commit(constraints, store, account) ==
  IF account.id \notin Ids(store)
  THEN [result |-> "DatabaseError", store |-> store]
  ELSE IF constraints.foreign_key /\ Children(store, account.id) # {}
  THEN [result |-> "DatabaseError", store |-> store]
  ELSE [result |-> "Deleted", store |-> store \ {ById(store, account.id)}]

(***************************************************************************)
(* read: AccountResource.get (get_account_tree) and                        *)
(* AccountResourceByParentName.get (get_accounts_by_parent_name).          *)
(* A nested response is kept flat: one node per account of the response,   *)
(* each with the ids of its children in the order of the response.         *)
(***************************************************************************)
\* sum(entry.debit_amount for entry in ...) over a set of DailyEntries rows
RECURSIVE SumDebit(_)
SumDebit(rows) ==
  IF rows = {} THEN 0
  ELSE LET e == CHOOSE x \in rows : TRUE
       IN e.debit_amount + SumDebit(rows \ {e})

\* sum(entry.credit_amount for entry in ...)
RECURSIVE SumCredit(_)
SumCredit(rows) ==
  IF rows = {} THEN 0
  ELSE LET e == CHOOSE x \in rows : TRUE
       IN e.credit_amount + SumCredit(rows \ {e})

\* own_debit adding the debit amount of every entry that names the account
\* on either side.
own_debit_of_either_side(entries, name) ==
  SumDebit({e \in entries : e.debit = name \/ e.credit = name})

\* own_debit and own_credit of compute_account_totals for an account name.
own_debit(entries, name) == SumDebit({e \in entries : e.debit = name})
own_credit(entries, name) == SumCredit({e \in entries : e.credit = name})

\* ... .order_by(Account.code).all(): rows by ascending code, rows of equal
\* code in the order of their ids.
RECURSIVE OrderByCode(_)
OrderByCode(rows) ==
  IF rows = {} THEN <<>>
  ELSE LET first == CHOOSE a \in rows : \A b \in rows :
                      /\ ~StrLess(b.code, a.code)
                      /\ b.code = a.code => a.id <= b.id
       IN <<first>> \o OrderByCode(rows \ {first})

\* A query with no ORDER BY: rows in the order of their ids.
RECURSIVE OrderById(_)
OrderById(rows) ==
  IF rows = {} THEN <<>>
  ELSE LET first == CHOOSE a \in rows : \A b \in rows : a.id <= b.id
       IN <<first>> \o OrderById(rows \ {first})

IdsOf(seq) == [i \in DOMAIN seq |-> seq[i].id]

\* compute_account_totals(account): [nodes, total_debit, total_credit];
\* children_totals is its loop over the children from position i on.
RECURSIVE compute_account_totals(_, _, _)
RECURSIVE children_totals(_, _, _, _)
children_totals(store, entries, children, i) ==
  IF i > Len(children)
  THEN [nodes |-> {}, total_debit |-> 0, total_credit |-> 0]
  ELSE LET child == compute_account_totals(store, entries, children[i])
           rest == children_totals(store, entries, children, i + 1)
       IN [nodes |-> child.nodes \cup rest.nodes,
           total_debit |-> child.total_debit + rest.total_debit,
           total_credit |-> child.total_credit + rest.total_credit]

compute_account_totals(store, entries, account) ==
  LET children == OrderByCode(Children(store, account.id))
      sub == children_totals(store, entries, children, 1)
      total_debit == own_debit(entries, account.name) + sub.total_debit
      total_credit == own_credit(entries, account.name) + sub.total_credit
  IN [nodes |-> {[account |-> account, debit_amount |-> total_debit,
                  credit_amount |-> total_credit,
                  children |-> IdsOf(children)]} \cup sub.nodes,
      total_debit |-> total_debit,
      total_credit |-> total_credit]

\* The own amounts of a set of accounts, added up: [debit, credit].
RECURSIVE OwnTotals(_, _)
OwnTotals(rows, entries) ==
  IF rows = {} THEN [debit |-> 0, credit |-> 0]
  ELSE LET a == CHOOSE x \in rows : TRUE
           rest == OwnTotals(rows \ {a}, entries)
       IN [debit |-> own_debit(entries, a.name) + rest.debit,
           credit |-> own_credit(entries, a.name) + rest.credit]

\* The accounts without children.
Leaves(store) == {a \in store : Children(store, a.id) = {}}

\* get_all_accounts_from_stmt adding up the own amounts of the accounts
\* without children only.
RECURSIVE get_all_accounts_from_stmt_leaves_only(_, _, _, _)
get_all_accounts_from_stmt_leaves_only(store, entries, rows, i) ==
  IF i > Len(rows)
  THEN [accounts |-> <<>>, nodes |-> {},
        grand_total_debit |-> 0, grand_total_credit |-> 0]
  ELSE LET root == compute_account_totals(store, entries, rows[i])
           below == {a \in Leaves(store) : get_root_account(store, a).id = rows[i].id}
           rest == get_all_accounts_from_stmt_leaves_only(store, entries, rows, i + 1)
       IN [accounts |-> <<rows[i].id>> \o rest.accounts,
           nodes |-> root.nodes \cup rest.nodes,
           grand_total_debit |-> OwnTotals(below, entries).debit + rest.grand_total_debit,
           grand_total_credit |-> OwnTotals(below, entries).credit + rest.grand_total_credit]

\* get_all_accounts_from_stmt(session, stmt): the loop over the rows of stmt
\* from position i on.
RECURSIVE get_all_accounts_from_stmt(_, _, _, _)
get_all_accounts_from_stmt(store, entries, rows, i) ==
  IF i > Len(rows)
  THEN [accounts |-> <<>>, nodes |-> {},
        grand_total_debit |-> 0, grand_total_credit |-> 0]
  ELSE LET root == compute_account_totals(store, entries, rows[i])
           rest == get_all_accounts_from_stmt(store, entries, rows, i + 1)
       IN [accounts |-> <<rows[i].id>> \o rest.accounts,
           nodes |-> root.nodes \cup rest.nodes,
           grand_total_debit |-> root.total_debit + rest.grand_total_debit,
           grand_total_credit |-> root.total_credit + rest.grand_total_credit]

\* get_account_tree while calling validate_root_accounts first.
get_account_tree_bootstrapping(s, entries) ==
  LET s1 == validate_root_accounts(s)
  IN [result |-> get_all_accounts_from_stmt(s1.store, entries,
                                            OrderById(Roots(s1.store)), 1),
      store |-> s1.store, nextId |-> s1.nextId]

\* get_account_tree(session) on the committed state s = [store, nextId]:
\* the result, and the committed state after the call.
get_account_tree(s, entries) ==
  [result |-> get_all_accounts_from_stmt(s.store, entries,
                                         OrderById(Roots(s.store)), 1),
   store |-> s.store, nextId |-> s.nextId]

\* math.ceil(total / per_page)
CeilDiv(total, per_page) == (total + per_page - 1) \div per_page

\* paginate_query(query, page, per_page) for a list
paginate_query(query, page, per_page) ==
  LET p == IF page > 1 THEN page ELSE 1
      pp == IF per_page > 1 THEN per_page ELSE 1
      total == Len(query)
      start == (p - 1) * pp
      end == IF start + pp < total THEN start + pp ELSE total
  IN [items |-> SubSeq(query, start + 1, end), page |-> p, per_page |-> pp,
      total |-> total, total_pages |-> CeilDiv(total, pp)]

\* AccountResource.get: the response body and the committed state.
AccountResource_get(s, entries, page, per_page) ==
  LET r == get_account_tree(s, entries)
      paginated_accounts == paginate_query(r.result.accounts, page, per_page)
      shown == {paginated_accounts.items[i] : i \in DOMAIN paginated_accounts.items}
  IN [body |-> [kind |-> "tree",
                items |-> paginated_accounts.items,
                nodes |-> {n \in r.result.nodes :
                             get_root_account(r.store, n.account).id \in shown},
                page |-> paginated_accounts.page,
                per_page |-> paginated_accounts.per_page,
                total |-> paginated_accounts.total,
                total_pages |-> paginated_accounts.total_pages,
                grand_total_debit |-> r.result.grand_total_debit,
                grand_total_credit |-> r.result.grand_total_credit],
      store |-> r.store, nextId |-> r.nextId]

\* build_account_tree(account) of get_accounts_by_parent_name: the nodes of
\* the subtree; subtree_nodes is its loop over the children.
RECURSIVE build_account_tree(_, _)
RECURSIVE subtree_nodes(_, _, _)
subtree_nodes(store, children, i) ==
  IF i > Len(children) THEN {}
  ELSE build_account_tree(store, children[i]) \cup subtree_nodes(store, children, i + 1)

build_account_tree(store, account) ==
  LET children == OrderById(Children(store, account.id))
  IN {[account |-> account, children |-> IdsOf(children)]}
     \cup subtree_nodes(store, children, 1)

\* get_accounts_by_parent_name(session, parent_name) and its handler:
\* the response body and the committed state.
get_accounts_by_parent_name(s, parent_name) ==
  LET found == {a \in s.store : a.name = parent_name}
  IN IF found = {}
     THEN [result |-> "AccountNotFound", body |-> [kind |-> "error"],
           store |-> s.store, nextId |-> s.nextId]
     ELSE LET parent == OrderById(found)[1]
          IN [result |-> "Found",
              body |-> [kind |-> "subtree", root |-> parent.id,
                        nodes |-> build_account_tree(s.store, parent)],
              store |-> s.store, nextId |-> s.nextId]

(***************************************************************************)
(* Requests and environment inputs of the model.                           *)
(***************************************************************************)
Cash == <<"C","a","s","h">>
cash_padded == <<" ","c","a","s","h"," ">>
Bank == <<"B","a","n","k">>
blank == <<" ">>
credit_padded == <<" ","C","r","e","d","i","t">>
invalid_word == <<"x">>

ParentIds == {NoneId} \cup (0..MaxId)
AccountIds == 1..MaxId

\* Request bodies of create: every parent with every name, and every parent
\* with every nature and account type.
CreateBodies ==
  [parent_id : ParentIds, name : {Cash, Revenue}, nature : {Absent},
   cc_required : {"Absent"}, account_type : {Absent}]
  \cup
  [parent_id : ParentIds, name : {Cash}, nature : {credit_padded, invalid_word},
   cc_required : {"Absent"}, account_type : {Absent, pnl}]
  \cup
  [parent_id : {1}, name : {Cash}, nature : {Absent},
   cc_required : {"Absent", "NotABool"}, account_type : {invalid_word}]

\* Requests of update: one field, or a name with a second field.
UpdateFields ==
  [name : {cash_padded, Revenue, Bank, blank}, cc_required : {"Absent"},
   account_type : {Absent}]
  \cup
  [name : {Absent, Bank}, cc_required : {"True", "False"}, account_type : {Absent}]
  \cup
  [name : {Absent, Bank}, cc_required : {"Absent"},
   account_type : {None, pnl, invalid_word}]

\* Requests of SpecUsage.
UsageCreateBodies ==
  [parent_id : ParentIds, name : {Cash, Revenue}, nature : {Absent},
   cc_required : {"Absent"}, account_type : {Absent}]

UsageUpdateFields ==
  [name : {cash_padded, Revenue, Bank, blank}, cc_required : {"Absent"},
   account_type : {Absent}]
  \cup
  [name : {Absent, Bank}, cc_required : {"True", "False"}, account_type : {Absent}]

\* Requests of SpecRoots: creates without a parent.
RootCreateBodies ==
  [parent_id : {NoneId}, name : {Cash}, nature : {Absent},
   cc_required : {"Absent"}, account_type : {Absent}]

\* The rows the posting subsystem may add to DailyEntries.
JournalInputs ==
  { [no |-> 1, debit |-> Cash, credit |-> Revenue,
     debit_amount |-> 100, credit_amount |-> 100] }

TransactionKinds == {"sales", "purchase", "expense"}

\* Requests and journal rows of SpecRead.
ReadCreateBodies ==
  [parent_id : {NoneId, 1, 4, 5}, name : {Cash, Bank}, nature : {Absent},
   cc_required : {"Absent"}, account_type : {Absent}]

ReadUpdateFields ==
  { [name |-> Bank, cc_required |-> "Absent", account_type |-> Absent] }

ReadJournalInputs ==
  { [no |-> 1, debit |-> Cash, credit |-> Revenue,
     debit_amount |-> 100, credit_amount |-> 100],
    [no |-> 2, debit |-> Bank, credit |-> Cash,
     debit_amount |-> 40, credit_amount |-> 40] }

\* Requests of SpecPolicy: under every root, every nature with every account
\* type; one account below a non-root account.
pnl_padded == <<" ","p","&","l"," ">>

PolicyCreateBodies ==
  [parent_id : 1..4, name : {Cash},
   nature : {Absent, debit, credit_padded, both, EmptyStr},
   cc_required : {"Absent"}, account_type : {Absent, EmptyStr, balance_sheet, pnl}]
  \cup
  [parent_id : {5}, name : {Bank}, nature : {Absent, both},
   cc_required : {"Absent"}, account_type : {Absent}]

PolicyUpdateFields ==
  [name : {Absent}, cc_required : {"Absent"},
   account_type : {None, EmptyStr, balance_sheet, pnl, pnl_padded}]
  \cup
  [name : {Bank, cash_padded}, cc_required : {"Absent"},
   account_type : {Absent, None, pnl}]
  \cup
  [name : {Absent}, cc_required : {"True", "False"}, account_type : {Absent, None}]

\* Requests of SpecDefaults and SpecCc: names with and without the words the
\* cost-center rules look for, under Assets and under Expenses.
rent_expense == <<"R","e","n","t"," ","E","x","p","e","n","s","e">>
depreciation_expense == <<"D","e","p","r","e","c","i","a","t","i","o","n"," ","E","x","p","e","n","s","e">>
bank_charges_upper == <<"B","A","N","K"," ","C","H","A","R","G","E","S">>
cogs_name == <<"C","o","s","t"," ","o","f"," ","G","o","o","d","s"," ","S","o","l","d">>
rebates == <<"R","e","b","a","t","e","s">>
depreciation_rebate == <<"D","e","p","r","e","c","i","a","t","i","o","n"," ","R","e","b","a","t","e">>

DefaultsCreateBodies ==
  [parent_id : {1, 3},
   name : {rent_expense, depreciation_expense, bank_charges_upper, cogs_name,
           rebates, depreciation_rebate},
   nature : {Absent}, cc_required : {"Absent", "False", "True"},
   account_type : {Absent}]
  \cup
  [parent_id : {5}, name : {Cash}, nature : {Absent},
   cc_required : {"Absent"}, account_type : {Absent}]

CcCreateBodies ==
  [parent_id : {1, 3}, name : {rent_expense, rebates}, nature : {Absent},
   cc_required : {"Absent", "False", "True"}, account_type : {Absent}]

CcUpdateFields ==
  [name : {Absent, Bank, rebates}, cc_required : {"False", "True"},
   account_type : {Absent}]
  \cup
  [name : {Absent}, cc_required : {"False"}, account_type : {None}]

\* The accounts the requests of SpecCc update: those created by a request.
CcAccountIds == 5..MaxCcId

\* Requests of SpecTotals: Cash under Assets, Bank under Assets or under the
\* first account created.
TotalsCreateBodies ==
  [parent_id : {1, 5}, name : {Cash, Bank}, nature : {Absent},
   cc_required : {"Absent"}, account_type : {Absent}]

\* Requests of SpecCodes: children of Assets and of the first two accounts
\* created.
CodesCreateBodies ==
  [parent_id : {1, 5, 6}, name : {Cash, Bank, rent_expense}, nature : {Absent},
   cc_required : {"Absent"}, account_type : {Absent}]

\* The accounts the requests of SpecCodes delete: those created by a request.
CodesAccountIds == 5..MaxCodesId

\* Requests of SpecParents: children of Assets, of Revenue and of the first
\* account created; a rename and a change of account type.
ParentsCreateBodies ==
  [parent_id : {1, 4, 5}, name : {Cash, Bank}, nature : {Absent},
   cc_required : {"Absent"}, account_type : {Absent}]

ParentsUpdateFields ==
  { [name |-> Bank, cc_required |-> "Absent", account_type |-> Absent],
    [name |-> Absent, cc_required |-> "True", account_type |-> None] }

\* Requests whose name is the name of an account of the model in another
\* letter case or with surrounding whitespace, alone or with cc_required.
cash_upper == <<"C","A","S","H">>
bank_padded == <<"\t","b","A","N","K"," ">>

CaseOnlyUpdateFields ==
  [name : {cash_padded, cash_upper, Cash, revenue_lc, bank_padded},
   cc_required : {"Absent", "True", "False"}, account_type : {Absent}]

\* Requests of SpecRace: children of Assets and of the first account created.
RaceCreateBodies ==
  [parent_id : {1, 5}, name : {Cash, Bank}, nature : {Absent},
   cc_required : {"Absent"}, account_type : {Absent}]

\* The accounts the requests of SpecRace delete: those created by a request.
RaceAccountIds == 5..MaxRaceId

Pages == {1, 2}
PerPages == {3, 10}
ParentNames == {Assets, Cash, Bank}

(***************************************************************************)
(* The state machine.                                                      *)
(***************************************************************************)
Init ==
  /\ accounts = {}
  /\ nextId = 1
  /\ journal = {}
  /\ txns = {}
  /\ ops = 0
  /\ last = [op |-> "none", result |-> "none", changes |-> <<>>]
  /\ view = [kind |-> "none"]
  /\ readAt = 0
  /\ pending = {}
  /\ schema = [unique_code |-> FALSE, foreign_key |-> FALSE]

\* The Account table (models.Account) may be created with a unique
\* constraint on code and with an enforced foreign key on parent_id, or
\* without them.
Schemas == [unique_code : BOOLEAN, foreign_key : BOOLEAN]

InitRace ==
  /\ accounts = {}
  /\ nextId = 1
  /\ journal = {}
  /\ txns = {}
  /\ ops = 0
  /\ last = [op |-> "none", result |-> "none", changes |-> <<>>]
  /\ view = [kind |-> "none"]
  /\ readAt = 0
  /\ pending = {}
  /\ schema \in Schemas

\* POST /accounts
Create(body, maxOps, maxId) ==
  LET r == AccountResource_post([store |-> accounts, nextId |-> nextId], body)
  IN /\ ops < maxOps
     /\ r.nextId <= maxId + 1
     /\ accounts' = r.store
     /\ nextId' = r.nextId
     /\ ops' = ops + 1
     /\ last' = [op |-> "create", result |-> r.result, changes |-> <<>>]
     /\ UNCHANGED <<journal, txns, view, readAt, pending, schema>>

\* PUT /accounts/<account_id>
Update(account_id, update_fields, maxOps) ==
  LET r == AccountResourceUpdate_put(accounts, journal, txns, account_id, update_fields)
  IN /\ ops < maxOps
     /\ accounts' = r.store
     /\ ops' = ops + 1
     /\ last' = [op |-> "update", result |-> r.result, changes |-> r.changes]
     /\ UNCHANGED <<nextId, journal, txns, view, readAt, pending, schema>>

\* DELETE /accounts/<account_id>
Delete(account_id, maxOps) ==
  LET r == delete_account(accounts, journal, txns, account_id)
  IN /\ ops < maxOps
     /\ accounts' = r.store
     /\ ops' = ops + 1
     /\ last' = [op |-> "delete", result |-> r.result, changes |-> <<>>]
     /\ UNCHANGED <<nextId, journal, txns, view, readAt, pending, schema>>

\* The posting subsystem records a journal entry.
PostEntry(entry, maxOps) ==
  /\ ops < maxOps
  /\ entry \notin journal
  /\ journal' = journal \cup {entry}
  /\ ops' = ops + 1
  /\ UNCHANGED <<accounts, nextId, txns, last, view, readAt, pending, schema>>

\* A sales, purchase or expense transaction is recorded against a non-root
\* account.
RecordTransaction(kind, account_id, maxOps) ==
  /\ ops < maxOps
  /\ account_id \in Ids(accounts) \ Ids(Roots(accounts))
  /\ [kind |-> kind, account_id |-> account_id] \notin txns
  /\ txns' = txns \cup {[kind |-> kind, account_id |-> account_id]}
  /\ ops' = ops + 1
  /\ UNCHANGED <<accounts, nextId, journal, last, view, readAt, pending, schema>>

\* AccountResource.get
ReadTree(page, per_page, maxOps) ==
  LET r == AccountResource_get([store |-> accounts, nextId |-> nextId], journal,
                               page, per_page)
  IN /\ ops < maxOps
     /\ accounts' = r.store
     /\ nextId' = r.nextId
     /\ view' = r.body
     /\ ops' = ops + 1
     /\ readAt' = ops + 1
     /\ last' = [op |-> "readTree", result |-> "Ok", changes |-> <<>>]
     /\ UNCHANGED <<journal, txns, pending, schema>>

\* AccountResourceByParentName.get
ReadByParentName(parent_name, maxOps) ==
  LET r == get_accounts_by_parent_name([store |-> accounts, nextId |-> nextId],
                                       parent_name)
  IN /\ ops < maxOps
     /\ accounts' = r.store
     /\ nextId' = r.nextId
     /\ view' = r.body
     /\ ops' = ops + 1
     /\ readAt' = ops + 1
     /\ last' = [op |-> "readByParentName", result |-> r.result, changes |-> <<>>]
     /\ UNCHANGED <<journal, txns, pending, schema>>

\* POST /accounts up to the commit of the new account: the bootstrapper
\* (which commits), the checks, the look-up of the parent and of the last
\* sibling code. The row is kept with the id the sequence shows at this
\* moment; the commit assigns the id.
BeginCreate(body, maxOps, maxId) ==
  LET s == [store |-> accounts, nextId |-> nextId]
      r == AccountResource_post(s, body)
      new_account == CHOOSE a \in r.store : a.id \notin Ids(validate_root_accounts(s).store)
      request == [op |-> "create", row |-> new_account]
  IN /\ ops < maxOps
     /\ Cardinality(pending) < MaxPending
     /\ r.nextId + Cardinality(pending) <= maxId + 1
     /\ ops' = ops + 1
     /\ IF r.result = "Created"
        THEN /\ request \notin pending
             /\ accounts' = r.store \ {new_account}
             /\ nextId' = r.nextId - 1
             /\ pending' = pending \cup {request}
             /\ UNCHANGED last
        ELSE /\ accounts' = r.store
             /\ nextId' = r.nextId
             /\ last' = [op |-> "create", result |-> r.result, changes |-> <<>>]
             /\ UNCHANGED pending
     /\ UNCHANGED <<journal, txns, view, readAt, schema>>

\* The commit of a create in flight, and the response.
CommitCreate(request) ==
  LET r == add_and_commit(schema, [store |-> accounts, nextId |-> nextId], request.row)
  IN /\ request \in pending /\ request.op = "create"
     /\ accounts' = r.store
     /\ nextId' = r.nextId
     /\ pending' = pending \ {request}
     /\ last' = [op |-> "create", result |-> r.result, changes |-> <<>>]
     /\ UNCHANGED <<journal, txns, ops, view, readAt, schema>>

\* DELETE /accounts/<account_id> up to session.delete: the look-up of the
\* account and the checks of children, journal entries and transactions.
BeginDelete(account_id, maxOps) ==
  LET r == delete_account(accounts, journal, txns, account_id)
      request == [op |-> "delete", row |-> ById(accounts, account_id)]
  IN /\ ops < maxOps
     /\ Cardinality(pending) < MaxPending
     /\ ops' = ops + 1
     /\ IF r.result = "Deleted"
        THEN /\ request \notin pending
             /\ pending' = pending \cup {request}
             /\ UNCHANGED last
        ELSE /\ last' = [op |-> "delete", result |-> r.result, changes |-> <<>>]
             /\ UNCHANGED pending
     /\ UNCHANGED <<accounts, nextId, journal, txns, view, readAt, schema>>

\* The commit of a delete in flight, and the response.
CommitDelete(request) ==
  LET r == delete_and_commit(schema, accounts, request.row)
  IN /\ request \in pending /\ request.op = "delete"
     /\ accounts' = r.store
     /\ pending' = pending \ {request}
     /\ last' = [op |-> "delete", result |-> r.result, changes |-> <<>>]
     /\ UNCHANGED <<nextId, journal, txns, ops, view, readAt, schema>>

\* The tree service alone.
Next ==
  \/ \E body \in CreateBodies : Create(body, MaxOps, MaxId)
  \/ \E account_id \in AccountIds, update_fields \in UpdateFields :
       Update(account_id, update_fields, MaxOps)
  \/ \E account_id \in AccountIds : Delete(account_id, MaxOps)

Spec == Init /\ [][Next]_vars

\* The tree service, longer behaviours.
NextDeep ==
  \/ \E body \in CreateBodies : Create(body, MaxDeepOps, MaxDeepId)
  \/ \E account_id \in AccountIds, update_fields \in UpdateFields :
       Update(account_id, update_fields, MaxDeepOps)
  \/ \E account_id \in AccountIds : Delete(account_id, MaxDeepOps)

SpecDeep == Init /\ [][NextDeep]_vars

\* The tree service with the journal and the transaction tables.
NextUsage ==
  \/ \E body \in UsageCreateBodies : Create(body, MaxUsageOps, MaxId)
  \/ \E account_id \in AccountIds, update_fields \in UsageUpdateFields :
       Update(account_id, update_fields, MaxUsageOps)
  \/ \E account_id \in AccountIds : Delete(account_id, MaxUsageOps)
  \/ \E entry \in JournalInputs : PostEntry(entry, MaxUsageOps)
  \/ \E kind \in TransactionKinds, account_id \in AccountIds :
       RecordTransaction(kind, account_id, MaxUsageOps)

SpecUsage == Init /\ [][NextUsage]_vars

\* Deleting roots and bootstrapping them again.
NextRoots ==
  \/ \E body \in RootCreateBodies : Create(body, MaxRootOps, MaxRootId)
  \/ \E account_id \in 1..MaxRootId : Delete(account_id, MaxRootOps)

SpecRoots == Init /\ [][NextRoots]_vars

\* The tree service with its read operations and the journal.
NextRead ==
  \/ \E body \in ReadCreateBodies : Create(body, MaxReadOps, MaxReadId)
  \/ \E account_id \in 1..MaxReadId, update_fields \in ReadUpdateFields :
       Update(account_id, update_fields, MaxReadOps)
  \/ \E account_id \in 1..MaxReadId : Delete(account_id, MaxReadOps)
  \/ \E entry \in ReadJournalInputs : PostEntry(entry, MaxReadOps)
  \/ \E page \in Pages, per_page \in PerPages : ReadTree(page, per_page, MaxReadOps)
  \/ \E parent_name \in ParentNames : ReadByParentName(parent_name, MaxReadOps)

SpecRead == Init /\ [][NextRead]_vars

\* Creates and updates with every nature and account type.
NextPolicy ==
  \/ \E body \in PolicyCreateBodies : Create(body, MaxPolicyOps, MaxPolicyId)
  \/ \E account_id \in 1..MaxPolicyId, update_fields \in PolicyUpdateFields :
       Update(account_id, update_fields, MaxPolicyOps)

SpecPolicy == Init /\ [][NextPolicy]_vars

\* Creates, updates of cc_required and transactions.
NextCc ==
  \/ \E body \in CcCreateBodies : Create(body, MaxCcOps, MaxCcId)
  \/ \E account_id \in CcAccountIds, update_fields \in CcUpdateFields :
       Update(account_id, update_fields, MaxCcOps)
  \/ \E kind \in TransactionKinds, account_id \in CcAccountIds :
       RecordTransaction(kind, account_id, MaxCcOps)

SpecCc == Init /\ [][NextCc]_vars

\* Creates with every name the cost-center rules look for, and deletes.
NextDefaults ==
  \/ \E body \in DefaultsCreateBodies : Create(body, MaxDefaultsOps, MaxDefaultsId)
  \/ \E account_id \in 1..MaxDefaultsId : Delete(account_id, MaxDefaultsOps)

SpecDefaults == Init /\ [][NextDefaults]_vars

\* Creates, journal entries and the tree with its totals.
NextTotals ==
  \/ \E body \in TotalsCreateBodies : Create(body, MaxTotalsOps, MaxTotalsId)
  \/ \E entry \in ReadJournalInputs : PostEntry(entry, MaxTotalsOps)
  \/ ReadTree(1, 10, MaxTotalsOps)

SpecTotals == Init /\ [][NextTotals]_vars

\* Creates and deletes of siblings.
NextCodes ==
  \/ \E body \in CodesCreateBodies : Create(body, MaxCodesOps, MaxCodesId)
  \/ \E account_id \in CodesAccountIds : Delete(account_id, MaxCodesOps)

SpecCodes == Init /\ [][NextCodes]_vars

\* Creates, updates and deletes of roots, parents and leaves.
NextParents ==
  \/ \E body \in ParentsCreateBodies : Create(body, MaxParentsOps, MaxParentsId)
  \/ \E account_id \in 1..MaxParentsId, update_fields \in ParentsUpdateFields :
       Update(account_id, update_fields, MaxParentsOps)
  \/ \E account_id \in 1..MaxParentsId : Delete(account_id, MaxParentsOps)

SpecParents == Init /\ [][NextParents]_vars

\* Creates and deletes that run concurrently.
NextRace ==
  \/ \E body \in RaceCreateBodies : BeginCreate(body, MaxRaceOps, MaxRaceId)
  \/ \E request \in pending : CommitCreate(request)
  \/ \E account_id \in RaceAccountIds : BeginDelete(account_id, MaxRaceOps)
  \/ \E request \in pending : CommitDelete(request)

SpecRace == InitRace /\ [][NextRace]_vars

(***************************************************************************)
(* Properties.                                                             *)
(***************************************************************************)
RootNames == {root_accounts[i].name : i \in DOMAIN root_accounts}

\* The roots have been bootstrapped: every id comes from a create, and a
\* create starts with validate_root_accounts.
Bootstrapped == nextId > 1

\* C1: once the roots have been bootstrapped, every reachable state has
\* exactly four accounts with parent = none, named Assets, Liability & Equity,
\* Expenses and Revenue.
C1_ExactlyFourRoots ==
  Bootstrapped =>
    /\ Cardinality(Roots(accounts)) = 4
    /\ {a.name : a \in Roots(accounts)} = RootNames

\* C2: in every reachable state no two accounts have names that are equal
\* when compared case-insensitively.
C2_NamesUniqueIgnoringCase ==
  \A a \in accounts, b \in accounts :
    a.id # b.id => Lower(a.name) # Lower(b.name)

\* a is a proper prefix of b.
ProperPrefix(a, b) == Len(a) < Len(b) /\ SubSeq(b, 1, Len(a)) = a

\* C3: the code of every account differs from the code of every other
\* existing account and is nested under its parent's code: under a root, the
\* root's leading digit followed by a 3-digit suffix; under any other parent,
\* the parent's code is a proper prefix of it.
C3_CodesUniqueAndNested ==
  /\ \A a \in accounts, b \in accounts : a.id # b.id => a.code # b.code
  /\ \A a \in accounts :
       a.parent_id # NoneId =>
         LET parent == ById(accounts, a.parent_id)
         IN IF parent.parent_id = NoneId
            THEN Len(a.code) = 4 /\ a.code[1] = parent.code[1]
            ELSE ProperPrefix(parent.code, a.code)

\* The four roots of a store carry the canonical values of root_accounts.
CanonicalRoots(store) ==
  /\ Cardinality(Roots(store)) = 4
  /\ \A i \in DOMAIN root_accounts :
       \E a \in Roots(store) :
         /\ a.name = root_accounts[i].name
         /\ a.nature = root_accounts[i].nature
         /\ a.account_type = root_accounts[i].account_type
         /\ a.cc_required = root_accounts[i].cc_required

\* C10: from every store, running the bootstrapper twice yields the state of
\* running it once, and that state has exactly four roots with the canonical
\* nature, account_type and cc_required.
C10_BootstrapIdempotent ==
  LET once == validate_root_accounts([store |-> accounts, nextId |-> nextId])
      twice == validate_root_accounts(once)
  IN twice = once /\ CanonicalRoots(once.store)

\* The account_type the root policy table gives under a root of this name,
\* None under a root of another name.
PolicyType(root_name) ==
  IF root_name \in {Assets, LiabilityEquity} THEN balance_sheet
  ELSE IF root_name \in {Expenses, Revenue} THEN pnl
  ELSE None

\* nature and account_type of account a agree with the root policy table for
\* a root of this name.
PolicyOk(a, root_name) ==
  /\ root_name = Assets => a.nature = debit /\ a.account_type = balance_sheet
  /\ root_name = LiabilityEquity => a.nature = credit /\ a.account_type = balance_sheet
  /\ root_name \in {Expenses, Revenue} => a.account_type = pnl

\* C4 as stated: in every reachable state every account agrees with the
\* root policy table for the name of its root ancestor.
C4_PolicyInEveryState ==
  \A a \in accounts : PolicyOk(a, get_root_account(accounts, a).name)

\* C4 as amended: an account is created in agreement with the root policy
\* table for the name its root ancestor has at that moment; afterwards no
\* step changes its nature, and a step changes its account_type only to null
\* or to the table's value for the name its root ancestor then has.
C4_PolicyOnEveryMutation ==
  [][\A a \in accounts' :
       LET root_name == get_root_account(accounts', a).name
       IN IF a.id \notin Ids(accounts)
          THEN PolicyOk(a, root_name)
          ELSE LET old == ById(accounts, a.id)
               IN /\ a.nature = old.nature
                  /\ \/ a.account_type = old.account_type
                     \/ a.account_type = None
                     \/ a.account_type = PolicyType(root_name)]_vars

\* C4 witness: an update has cleared the account_type of a non-root account
\* under Assets, which create had set to balance_sheet.
C4_Witness ==
  /\ last.op = "update" /\ last.result = "Updated"
  /\ \E a \in accounts :
       /\ a.parent_id # NoneId
       /\ get_root_account(accounts, a).name = Assets
       /\ a.nature = debit
       /\ a.account_type = None

\* The responses of a create that adds no account.
HandlerRejections == {"InvalidCcRequired", "InvalidAccountType"}
CreateFailures ==
  {"BadNature", "BadAccountType", "NoParent", "AccountExists", "ParentNotFound",
   "NatureConflict", "TypeConflict", "DatabaseError"}

NonRoots(store) == store \ Roots(store)

\* C5 as stated: a create that fails leaves the account table exactly as it
\* was before the call.
C5_FailedCreateChangesNothing ==
  [][(ops' # ops /\ last'.op = "create"
      /\ last'.result \in HandlerRejections \cup CreateFailures)
     => accounts' = accounts]_vars

\* C5 as amended: a create rejected by the handler's own checks leaves the
\* account table as it was; a create that fails inside
\* create_account_in_account_tree leaves it as the root bootstrapper leaves
\* it: no non-root account is added, removed or changed, no root is removed,
\* and the only changes are missing roots created and account_type and
\* cc_required of existing roots reset.
C5_FailedCreateOnlyBootstraps ==
  [][(ops' # ops /\ last'.op = "create")
     => /\ last'.result \in HandlerRejections => accounts' = accounts
        /\ last'.result \in CreateFailures =>
             /\ accounts' =
                  validate_root_accounts([store |-> accounts, nextId |-> nextId]).store
             /\ NonRoots(accounts') = NonRoots(accounts)
             /\ \A a \in Roots(accounts) :
                  \E b \in Roots(accounts') :
                    /\ b.id = a.id /\ b.name = a.name /\ b.code = a.code
                    /\ b.nature = a.nature
             /\ \A b \in Roots(accounts') :
                  b.id \notin Ids(accounts) => b.name \in RootNames]_vars

\* C5 witness: a create has failed with AccountExists in a state that has a
\* non-root account, after the bootstrapper ran.
C5_Witness ==
  /\ last.op = "create" /\ last.result = "AccountExists"
  /\ NonRoots(accounts) # {}

\* C6: an update that does not end in a commit (a failed check of any field,
\* or no change) and a rejected delete leave the account table unchanged.
C6_RejectedUpdateOrDeleteChangesNothing ==
  [][/\ (ops' # ops /\ last'.op = "update" /\ last'.result # "Updated")
          => accounts' = accounts
     /\ (ops' # ops /\ last'.op = "delete" /\ last'.result # "Deleted")
          => accounts' = accounts]_vars

\* C6 witness: an update has failed on a later field after an earlier field
\* of the same request had been changed in the session.
C6_Witness ==
  /\ last.op = "update"
  /\ last.result \notin {"Updated", "NoChanges"}
  /\ last.changes # <<>>

\* The account has a row in one of the three transaction tables.
HasTransaction(rows, id) == \E t \in rows : t.account_id = id

\* C7: a delete of an account with a child fails and removes nothing; a
\* delete of an account with no child, no journal entry naming it and no
\* sales, purchase or expense transaction succeeds and the account is gone;
\* a journal entry or a transaction of any one kind blocks the delete.
C7_DeleteGuard ==
  [][\A id \in AccountIds :
       (Delete(id, MaxUsageOps) /\ id \in Ids(accounts)) =>
         LET account == ById(accounts, id)
             has_child == \E a \in accounts : a.parent_id = id
             in_journal ==
               \E e \in journal : e.debit = account.name \/ e.credit = account.name
         IN /\ has_child => last'.result # "Deleted" /\ accounts' = accounts
            /\ (~has_child /\ ~in_journal /\ ~HasTransaction(txns, id)) =>
                 /\ last'.result = "Deleted"
                 /\ id \notin Ids(accounts')
                 /\ accounts' = accounts \ {account}
            /\ (in_journal \/ HasTransaction(txns, id)) =>
                 last'.result # "Deleted" /\ accounts' = accounts]_vars

\* C7 witness: a delete of a childless account that no journal entry names
\* has been blocked by an expense transaction alone.
C7_Witness ==
  /\ last.op = "delete" /\ last.result = "UsedInExpense"
  /\ \E t \in txns : t.kind = "expense"

\* C8 as stated: an update with a new (non-empty) name fails and leaves the
\* name unchanged when a journal entry names the account; otherwise it fails
\* with AccountExists when another account has the new name
\* case-insensitively, and a request with the name alone succeeds when none
\* has.
C8_RenameGuard ==
  [][\A id \in AccountIds, f \in UsageUpdateFields :
       (/\ Update(id, f, MaxUsageOps)
        /\ id \in Ids(accounts)
        /\ f.name # Absent /\ Strip(f.name) # EmptyStr) =>
         LET account == ById(accounts, id)
             in_journal ==
               \E e \in journal : e.debit = account.name \/ e.credit = account.name
             collides ==
               \E b \in accounts : b.id # id /\ Lower(b.name) = Lower(Strip(f.name))
             name_only == f.cc_required = "Absent" /\ f.account_type = Absent
         IN IF in_journal
            THEN /\ last'.result \notin {"Updated", "NoChanges"}
                 /\ account \in accounts'
            ELSE IF collides THEN last'.result = "AccountExists"
            ELSE name_only =>
                   /\ last'.result \in {"Updated", "NoChanges"}
                   /\ \E b \in accounts' : b.id = id /\ Lower(b.name) = Lower(Strip(f.name))]_vars

\* C8 as amended: a new name that is empty after stripping is rejected; a
\* new name equal to the current one case-insensitively after stripping is
\* no rename (no journal or uniqueness check, the stored name stays).
\* Otherwise the update fails and changes nothing when a journal entry names
\* the account by its current name, else fails with AccountExists when
\* another account has the new name case-insensitively, else the name check
\* passes: the stored name becomes the stripped new name unless the check of
\* another field of the same request fails, and a request with the name
\* alone succeeds.
C8_RenameGuardAmended ==
  [][\A id \in AccountIds, f \in UsageUpdateFields :
       (Update(id, f, MaxUsageOps) /\ id \in Ids(accounts) /\ f.name # Absent) =>
         LET account == ById(accounts, id)
             new_name == Strip(f.name)
             in_journal ==
               \E e \in journal : e.debit = account.name \/ e.credit = account.name
             collides ==
               \E b \in accounts : b.id # id /\ Lower(b.name) = Lower(new_name)
             name_only == f.cc_required = "Absent" /\ f.account_type = Absent
         IN IF new_name = EmptyStr
            THEN last'.result = "NameEmpty" /\ accounts' = accounts
            ELSE IF Lower(new_name) = Lower(account.name)
            THEN /\ last'.result \notin {"NameInUse", "AccountExists"}
                 /\ \E b \in accounts' : b.id = id /\ b.name = account.name
                 /\ name_only => last'.result = "NoChanges"
            ELSE IF in_journal
            THEN last'.result = "NameInUse" /\ accounts' = accounts
            ELSE IF collides
            THEN last'.result = "AccountExists" /\ accounts' = accounts
            ELSE /\ last'.result = "Updated" =>
                   \E b \in accounts' : b.id = id /\ b.name = new_name
                 /\ last'.result # "Updated" => accounts' = accounts
                 /\ name_only => last'.result = "Updated"]_vars

\* C8 witness: a rename of an account that a journal entry names has been
\* refused.
C8_Witness ==
  /\ last.op = "update" /\ last.result = "NameInUse"
  /\ \E a \in accounts, e \in journal : e.debit = a.name \/ e.credit = a.name

\* C9: once a journal entry names an existing account as debit or credit, the
\* account with that id exists with that name after every later step.
C9_JournalLinksKept ==
  [][\A a \in accounts :
       (\E e \in journal : e.debit = a.name \/ e.credit = a.name) =>
         \E b \in accounts' : b.id = a.id /\ b.name = a.name]_vars

\* C9 witness: a delete of a non-root account that a journal entry names has
\* been refused, and the account is there.
C9_Witness ==
  /\ last.op = "delete" /\ last.result = "UsedInEntries"
  /\ \E a \in NonRoots(accounts), e \in journal : e.debit = a.name \/ e.credit = a.name

C12_RootsOnFirstAccess ==
  [][(accounts = {} /\ ops' # ops /\ journal' = journal) =>
       /\ {a.name : a \in Roots(accounts')} = RootNames
       /\ last'.op = "readTree" => view'.total = 4]_vars

\* C20: readTree and readByParentName leave the account table and the
\* journal as they were.
C20_ReadsChangeNothing ==
  [][/\ \A page \in Pages, per_page \in PerPages :
          ReadTree(page, per_page, MaxReadOps) =>
            accounts' = accounts /\ nextId' = nextId /\ journal' = journal
     /\ \A parent_name \in ParentNames :
          ReadByParentName(parent_name, MaxReadOps) =>
            accounts' = accounts /\ nextId' = nextId /\ journal' = journal]_vars

\* C20 witness: readByParentName has returned an account with a descendant
\* while the journal has an entry.
C20_Witness ==
  /\ last.op = "readByParentName" /\ last.result = "Found"
  /\ Cardinality(view.nodes) >= 2
  /\ journal # {}

\* C13: no step changes the id, code, parent or nature of an account that
\* remains; a successful update changes nothing but name, cc_required and
\* account_type of one account and leaves every other account as it was; a
\* create removes no account, a delete adds none, and both leave every other
\* account as it was but for account_type and cc_required of roots.
C13_FrameOfEveryOperation ==
  [][/\ \A a \in accounts : a.id \in Ids(accounts') =>
          LET b == ById(accounts', a.id)
          IN /\ b.code = a.code /\ b.parent_id = a.parent_id /\ b.nature = a.nature
             /\ Cardinality({c \in accounts' : c.id = a.id}) = 1
     /\ (ops' # ops /\ last'.op = "update") =>
          /\ Ids(accounts') = Ids(accounts)
          /\ Cardinality(accounts \ accounts') <= 1
          /\ last'.result # "Updated" => accounts' = accounts
     /\ (ops' # ops /\ last'.op = "create") => Ids(accounts) \subseteq Ids(accounts')
     /\ (ops' # ops /\ last'.op = "delete") => accounts' \subseteq accounts
     /\ (ops' # ops /\ last'.op \in {"create", "delete"}) =>
          \A a \in accounts : a.id \in Ids(accounts') =>
            \/ a \in accounts'
            \/ /\ a.parent_id = NoneId
               /\ ById(accounts', a.id).name = a.name]_vars

\* C13 witness: an update has renamed a non-root account, next to the four
\* roots.
C13_Witness ==
  /\ last.op = "update" /\ last.result = "Updated"
  /\ \E a \in NonRoots(accounts) : a.name = Bank
  /\ Cardinality(Roots(accounts)) = 4

\* The request body passes the checks of the handler and of extract_body.
WellFormed(body) ==
  /\ body.cc_required # "NotABool"
  /\ body.account_type \in {Absent, None, EmptyStr, balance_sheet, pnl}
  /\ extract_body(body).error = "none"

\* C18: a well-formed create whose stripped name collides case-insensitively
\* with an existing account fails with AccountExists; otherwise it fails
\* with a validation error when no parent_id is given and with
\* ParentNotFound when the given parent_id, 0 included, resolves to no
\* account; in none of these cases is a non-root account added.
C18_CreateFailures ==
  [][\A body \in CreateBodies :
       (Create(body, MaxOps, MaxId) /\ WellFormed(body)) =>
         LET store == validate_root_accounts([store |-> accounts, nextId |-> nextId]).store
             collides == \E a \in store : Lower(a.name) = Lower(Strip(body.name))
         IN /\ collides => last'.result = "AccountExists"
            /\ (~collides /\ body.parent_id = NoneId) => last'.result = "NoParent"
            /\ (~collides /\ body.parent_id # NoneId /\ body.parent_id \notin Ids(store))
                 => last'.result = "ParentNotFound"
            /\ (collides \/ body.parent_id \notin Ids(store))
                 => NonRoots(accounts') = NonRoots(accounts)]_vars

\* The fields whose stored value differs between two versions of a row, by
\* the names update_account reports them under.
ChangedFields(old, new) ==
  (IF old.name # new.name THEN {"name"} ELSE {})
  \cup (IF old.cc_required # new.cc_required THEN {"cost center requirement"} ELSE {})
  \cup (IF old.account_type # new.account_type THEN {"account type"} ELSE {})

Reported(changes) == {changes[i] : i \in DOMAIN changes}

\* C14: in every reachable state, a create with a new name under an existing
\* parent applies the root policy table: under Assets (Liability & Equity)
\* an explicit nature other than debit (credit) or an explicit type other
\* than balance_sheet is rejected, else the account is created with nature
\* debit (credit) and type balance_sheet; under Expenses (Revenue) an
\* explicit type other than p&l is rejected, else the account is created
\* with type p&l and the explicit nature, debit (credit) when none is given.
C14_CreateAppliesRootPolicy ==
  \A body \in PolicyCreateBodies :
    LET s0 == [store |-> accounts, nextId |-> nextId]
        store == validate_root_accounts(s0).store
        r == AccountResource_post(s0, body)
        n == IF body.nature = Absent THEN EmptyStr ELSE Lower(Strip(body.nature))
        t == IF body.account_type \in {Absent, None} THEN EmptyStr
             ELSE body.account_type
        root_name == get_root_account(store, ById(store, body.parent_id)).name
        rejected ==
          r.result \in {"NatureConflict", "TypeConflict"} /\ r.store = store
        created(nature, account_type) ==
          /\ r.result = "Created"
          /\ \E a \in r.store \ store :
               /\ r.store = store \cup {a}
               /\ a.parent_id = body.parent_id
               /\ a.nature = nature /\ a.account_type = account_type
    IN (/\ body.parent_id \in Ids(store)
        /\ ~\E a \in store : Lower(a.name) = Lower(Strip(body.name))) =>
         /\ root_name = Assets =>
              IF (n # EmptyStr /\ n # debit) \/ (t # EmptyStr /\ t # balance_sheet)
              THEN rejected ELSE created(debit, balance_sheet)
         /\ root_name = LiabilityEquity =>
              IF (n # EmptyStr /\ n # credit) \/ (t # EmptyStr /\ t # balance_sheet)
              THEN rejected ELSE created(credit, balance_sheet)
         /\ root_name = Expenses =>
              IF t # EmptyStr /\ t # pnl THEN rejected
              ELSE created(IF n = EmptyStr THEN debit ELSE n, pnl)
         /\ root_name = Revenue =>
              IF t # EmptyStr /\ t # pnl THEN rejected
              ELSE created(IF n = EmptyStr THEN credit ELSE n, pnl)

\* C14 witness: a create under Expenses has kept the explicit nature `both`.
C14_Witness ==
  /\ last.op = "create" /\ last.result = "Created"
  /\ \E a \in NonRoots(accounts) :
       /\ get_root_account(accounts, a).name = Expenses
       /\ a.nature = both /\ a.account_type = pnl

\* C16: in every reachable state, an update that sets account_type to
\* balance_sheet on an account whose root is not Assets or Liability &
\* Equity, or to p&l on one whose root is not Revenue or Expenses, is
\* rejected and changes nothing; an update that only clears account_type is
\* accepted and leaves it null.
C16_TypeUpdateGuard ==
  \A id \in Ids(accounts), f \in PolicyUpdateFields :
    LET r == AccountResourceUpdate_put(accounts, journal, txns, id, f)
        root_name == get_root_account(accounts, ById(accounts, id)).name
        t == IF f.account_type \in {Absent, None} THEN EmptyStr
             ELSE Strip(f.account_type)
    IN /\ (t = balance_sheet /\ root_name \notin {Assets, LiabilityEquity}) =>
            r.result \notin {"Updated", "NoChanges"} /\ r.store = accounts
       /\ (t = pnl /\ root_name \notin {Revenue, Expenses}) =>
            r.result \notin {"Updated", "NoChanges"} /\ r.store = accounts
       /\ (/\ f.account_type \in {None, EmptyStr}
           /\ f.name = Absent /\ f.cc_required = "Absent") =>
            /\ r.result \in {"Updated", "NoChanges"}
            /\ ById(r.store, id).account_type = None

\* C19 as stated: in every reachable state, an update that passes its checks
\* returns "no changes" and commits nothing exactly when every supplied
\* field equals the current value of the account; otherwise it commits, and
\* the fields it reports are exactly those whose stored value differs before
\* and after.
C19_NoChangesIffEqual ==
  \A id \in Ids(accounts), f \in PolicyUpdateFields :
    LET r == AccountResourceUpdate_put(accounts, journal, txns, id, f)
        account == ById(accounts, id)
        all_equal ==
          /\ f.name # Absent => f.name = account.name
          /\ f.cc_required # "Absent" =>
               (f.cc_required = "True") = account.cc_required
          /\ f.account_type # Absent => f.account_type = account.account_type
    IN r.result \in {"NoChanges", "Updated"} =>
         /\ r.result = "NoChanges" <=> all_equal
         /\ r.result = "NoChanges" => r.store = accounts
         /\ r.result = "Updated" =>
              /\ r.changes # <<>>
              /\ Reported(r.changes) = ChangedFields(account, ById(r.store, id))

\* C19 as amended: the supplied name is compared stripped and
\* case-insensitively, and the supplied account_type stripped, with the
\* empty string standing for null.
C19_NoChangesIffEqualNormalised ==
  \A id \in Ids(accounts), f \in PolicyUpdateFields :
    LET r == AccountResourceUpdate_put(accounts, journal, txns, id, f)
        account == ById(accounts, id)
        all_equal ==
          /\ f.name # Absent => Lower(Strip(f.name)) = Lower(account.name)
          /\ f.cc_required # "Absent" =>
               (f.cc_required = "True") = account.cc_required
          /\ f.account_type # Absent =>
               IF f.account_type \in {None, EmptyStr}
               THEN account.account_type = None
               ELSE Strip(f.account_type) = account.account_type
    IN r.result \in {"NoChanges", "Updated"} =>
         /\ r.result = "NoChanges" <=> all_equal
         /\ r.result = "NoChanges" => r.store = accounts
         /\ r.result = "Updated" =>
              /\ r.changes # <<>>
              /\ Reported(r.changes) = ChangedFields(account, ById(r.store, id))

\* C19 witness: an update of an account has reported two changed fields.
C19_Witness ==
  /\ last.op = "update" /\ last.result = "Updated"
  /\ Len(last.changes) = 2

\* C15: in every reachable state, a create with a new name under an existing
\* parent that does not pass cc_required = true gives the new account
\* cc_required = true when its root is Expenses and its name contains
\* neither "depreciation" nor "bank charges", or when its name contains
\* "cost of goods sold" or "rebate" (under any root, the exemption
\* notwithstanding), and false otherwise; with cc_required = true passed it
\* is true.
C15_CcRequiredDefault ==
  \A body \in DefaultsCreateBodies :
    LET s0 == [store |-> accounts, nextId |-> nextId]
        store == validate_root_accounts(s0).store
        r == AccountResource_post(s0, body)
        name == Strip(body.name)
        root_name == get_root_account(store, ById(store, body.parent_id)).name
        mandated ==
          Contains(Lower(name), cost_of_goods_sold) \/ Contains(Lower(name), rebate)
        exempt ==
          Contains(Lower(name), depreciation) \/ Contains(Lower(name), bank_charges)
        expected ==
          IF body.cc_required = "True" THEN TRUE
          ELSE (root_name = Expenses /\ ~exempt) \/ mandated
    IN (/\ body.parent_id \in Ids(store)
        /\ ~\E a \in store : Lower(a.name) = Lower(name)) =>
         /\ r.result = "Created"
         /\ \E a \in r.store \ store :
              /\ r.store = store \cup {a}
              /\ a.name = name /\ a.cc_required = expected

\* C15 witness: "Depreciation Expense" has been created under Expenses with
\* cc_required = false.
C15_Witness ==
  /\ last.op = "create" /\ last.result = "Created"
  /\ \E a \in NonRoots(accounts) :
       /\ a.name = depreciation_expense /\ a.parent_id = 3 /\ ~a.cc_required

\* The account is referenced by a purchase or expense transaction.
PurchaseOrExpense(rows, id) ==
  \E t \in rows : t.account_id = id /\ t.kind \in {"purchase", "expense"}

\* C17 as stated: in every reachable state, an update with cc_required =
\* false of an account whose cc_required is true is rejected and changes
\* nothing when a purchase or expense transaction references the account or
\* when the name the account has at the time of the request contains "cost
\* of goods sold" or "rebate", whatever other fields the request carries.
C17_DisableGuard ==
  \A id \in Ids(accounts), f \in CcUpdateFields :
    LET r == AccountResourceUpdate_put(accounts, journal, txns, id, f)
        account == ById(accounts, id)
        is_cogs_or_rebate ==
          \/ Contains(Lower(account.name), cost_of_goods_sold)
          \/ Contains(Lower(account.name), rebate)
    IN (/\ account.cc_required /\ f.cc_required = "False"
        /\ (PurchaseOrExpense(txns, id) \/ is_cogs_or_rebate)) =>
         r.result \notin {"Updated", "NoChanges"} /\ r.store = accounts

\* C17 as amended: the name that counts is the one the request leaves the
\* account with: the new name, stripped, when the request carries one, else
\* the current name.
C17_DisableGuardOnResultingName ==
  \A id \in Ids(accounts), f \in CcUpdateFields :
    LET r == AccountResourceUpdate_put(accounts, journal, txns, id, f)
        account == ById(accounts, id)
        resulting_name == IF f.name = Absent THEN account.name ELSE Strip(f.name)
        is_cogs_or_rebate ==
          \/ Contains(Lower(resulting_name), cost_of_goods_sold)
          \/ Contains(Lower(resulting_name), rebate)
    IN (/\ account.cc_required /\ f.cc_required = "False"
        /\ (PurchaseOrExpense(txns, id) \/ is_cogs_or_rebate)) =>
         r.result \notin {"Updated", "NoChanges"} /\ r.store = accounts

\* C17 witness: an update has been refused because of a purchase or expense
\* transaction on an account whose name has neither word.
C17_Witness ==
  /\ last.op = "update" /\ last.result = "CcLocked"
  /\ \E a \in accounts :
       /\ PurchaseOrExpense(txns, a.id) /\ a.cc_required
       /\ ~Contains(Lower(a.name), cost_of_goods_sold)
       /\ ~Contains(Lower(a.name), rebate)

\* The reported debit and credit totals of a set of nodes of a response.
RECURSIVE ReportedDebit(_)
ReportedDebit(nodes) ==
  IF nodes = {} THEN 0
  ELSE LET n == CHOOSE x \in nodes : TRUE
       IN n.debit_amount + ReportedDebit(nodes \ {n})

RECURSIVE ReportedCredit(_)
ReportedCredit(nodes) ==
  IF nodes = {} THEN 0
  ELSE LET n == CHOOSE x \in nodes : TRUE
       IN n.credit_amount + ReportedCredit(nodes \ {n})

\* C22: in the tree a GetTree returns there is one node per account; every
\* node's reported debit (credit) total is the sum of debit_amount
\* (credit_amount) of the journal entries whose debit (credit) name equals
\* the node's name exactly, plus the reported totals of its children; each
\* grand total is the sum of the roots' reported totals; and with the entries
\* debit Cash 100 and credit Cash 40 a childless Cash reports 100/40.
C22_TreeTotals ==
  [][(ops' # ops /\ readAt' = ops' /\ last'.op = "readTree") =>
       /\ {n.account : n \in view'.nodes} = accounts
       /\ Cardinality(view'.nodes) = Cardinality(accounts)
       /\ \A n \in view'.nodes :
            LET below == {c \in view'.nodes : c.account.parent_id = n.account.id}
            IN /\ n.debit_amount =
                    SumDebit({e \in journal : e.debit = n.account.name})
                    + ReportedDebit(below)
               /\ n.credit_amount =
                    SumCredit({e \in journal : e.credit = n.account.name})
                    + ReportedCredit(below)
       /\ LET roots == {n \in view'.nodes : n.account.parent_id = NoneId}
          IN /\ view'.grand_total_debit = ReportedDebit(roots)
             /\ view'.grand_total_credit = ReportedCredit(roots)
       /\ \A n \in view'.nodes :
            (/\ n.account.name = Cash
             /\ Children(accounts, n.account.id) = {}
             /\ journal = ReadJournalInputs) =>
              n.debit_amount = 100 /\ n.credit_amount = 40]_vars

\* C22 witness: GetTree has reported 100/40 for Cash, below a root that
\* reports at least as much, with both entries in the journal.
C22_Witness ==
  /\ last.op = "readTree" /\ readAt = ops
  /\ journal = ReadJournalInputs
  /\ \E n \in view.nodes, r \in view.nodes :
       /\ n.account.name = Cash /\ n.debit_amount = 100 /\ n.credit_amount = 40
       /\ r.account.id = n.account.parent_id /\ r.account.name = Assets
       /\ r.debit_amount >= 100 /\ r.credit_amount >= 40
       /\ view.grand_total_debit >= r.debit_amount

\* The accounts of rows whose code is the greatest as a number.
GreatestCode(rows) ==
  CHOOSE a \in rows : \A b \in rows : ParseInt(b.code) <= ParseInt(a.code)

\* The code the scheme gives a new child of parent next to these siblings.
ExpectedChildCode(parent, siblings) ==
  LET suffix == IF siblings = {} THEN <<"0","0","1">>
                ELSE ZFill3(ToStr(ParseInt(Last3(GreatestCode(siblings).code)) + 1))
  IN IF parent.parent_id = NoneId
     THEN <<parent.code[1]>> \o suffix
     ELSE parent.code \o suffix

\* C23: a create under a root with code d000 gives the first child d001 and
\* a later child d followed by the 3-digit suffix of the sibling with the
\* greatest code plus one, zero-padded to 3 digits; under a deeper parent
\* the same suffix follows the whole code of the parent.
C23_ChildCodes ==
  [][(ops' # ops /\ last'.op = "create" /\ last'.result = "Created") =>
       \A a \in NonRoots(accounts') \ accounts :
         LET parent == ById(accounts', a.parent_id)
             siblings == Children(accounts, a.parent_id)
         IN (parent.parent_id = NoneId =>
               Len(parent.code) = 4 /\ SubSeq(parent.code, 2, 4) = <<"0","0","0">>)
            => /\ a.code = ExpectedChildCode(parent, siblings)
               /\ Len(a.code) = IF parent.parent_id = NoneId THEN 4
                                ELSE Len(parent.code) + 3]_vars

\* C23 witness: a third-level account has got the second code under its
\* parent, which is the first child of Assets.
C23_Witness ==
  /\ last.op = "create" /\ last.result = "Created"
  /\ \E a \in accounts, b \in accounts, p \in accounts :
       /\ p.code = <<"1","0","0","1">> /\ a.parent_id = p.id /\ b.parent_id = p.id
       /\ a.code = <<"1","0","0","1","0","0","1">>
       /\ b.code = <<"1","0","0","1","0","0","2">>

\* C29 as stated: in every reachable state, when a delete of a non-root account is
\* followed by a create of a new child under the same parent, the new
\* account gets the code of the deleted account if that account had the
\* greatest code among its siblings, and a different code, greater than
\* that of every remaining sibling, if a sibling with a greater code remains;
\* no two existing accounts ever share a code.
C29_CodeReusedAfterDeletingLast ==
  /\ \A a \in accounts, b \in accounts : a.id # b.id => a.code # b.code
  /\ \A a \in NonRoots(accounts), body \in CodesCreateBodies :
       LET d == delete_account(accounts, journal, txns, a.id)
           c == AccountResource_post([store |-> d.store, nextId |-> nextId], body)
           siblings == Children(accounts, a.parent_id)
           was_last == \A s \in siblings : ParseInt(s.code) <= ParseInt(a.code)
       IN (d.result = "Deleted" /\ body.parent_id = a.parent_id
           /\ c.result = "Created") =>
            /\ a \notin d.store
            /\ \E n \in c.store \ d.store :
                 /\ n.parent_id = a.parent_id
                 /\ was_last => n.code = a.code
                 /\ ~was_last =>
                      /\ n.code # a.code
                      /\ \A s \in siblings \ {a} : ParseInt(s.code) < ParseInt(n.code)

\* C29 as amended: the new account gets the code that follows the greatest
\* code among the siblings that remain (suffix 001 when none remains). When
\* the deleted account had the greatest code this is the deleted account's
\* code if its suffix was one more than the greatest remaining suffix (or 001
\* with no sibling remaining), and a smaller code otherwise; when a sibling
\* with a greater code remains it is a different code, greater than that of
\* every remaining sibling. No two existing accounts ever share a code.
C29_CodeFollowsRemainingSiblings ==
  /\ \A a \in accounts, b \in accounts : a.id # b.id => a.code # b.code
  /\ \A a \in NonRoots(accounts), body \in CodesCreateBodies :
       LET d == delete_account(accounts, journal, txns, a.id)
           c == AccountResource_post([store |-> d.store, nextId |-> nextId], body)
           siblings == Children(accounts, a.parent_id)
           remaining == siblings \ {a}
           parent == ById(accounts, a.parent_id)
           was_last == \A s \in siblings : ParseInt(s.code) <= ParseInt(a.code)
           follows ==
             IF remaining = {} THEN ParseInt(Last3(a.code)) = 1
             ELSE ParseInt(Last3(a.code)) =
                    ParseInt(Last3(GreatestCode(remaining).code)) + 1
       IN (d.result = "Deleted" /\ body.parent_id = a.parent_id
           /\ c.result = "Created") =>
            /\ a \notin d.store
            /\ \E n \in c.store \ d.store :
                 /\ n.parent_id = a.parent_id
                 /\ n.code = ExpectedChildCode(parent, remaining)
                 /\ (was_last /\ follows) => n.code = a.code
                 /\ (was_last /\ ~follows) => ParseInt(n.code) < ParseInt(a.code)
                 /\ ~was_last =>
                      /\ n.code # a.code
                      /\ \A s \in remaining : ParseInt(s.code) < ParseInt(n.code)

\* C29 witness: a create has given the code 1001 to an account that is not
\* the first one created; in SpecCodes the first account created is always
\* the child 1001 of Assets, so it has been deleted and its code assigned
\* again.
C29_Witness ==
  /\ last.op = "create" /\ last.result = "Created"
  /\ \E a \in accounts : a.code = <<"1","0","0","1">> /\ a.id > 5
  /\ \A a \in accounts : a.id # 5

\* The code that follows the numerically largest code among the roots.
NextRootCode(store) ==
  IF Roots(store) = {} THEN <<"1","0","0","0">>
  ELSE LET c == ParseInt(GreatestCode(Roots(store)).code)
       IN ToStr(1000 * ((c \div 1000) + 1))

\* Every root the bootstrapper creates from the session state s on, from
\* the i-th entry of root_accounts, gets the code that follows the
\* numerically largest root code of that moment.
RECURSIVE BootstrapCodes(_, _)
BootstrapCodes(s, i) ==
  IF i > Len(root_accounts) THEN TRUE
  ELSE LET t == EnsureRoot(s, root_accounts[i])
       IN /\ \A a \in t.store :
               a.id \notin Ids(s.store) => a.code = NextRootCode(s.store)
          /\ BootstrapCodes(t, i + 1)

\* C24: whenever the bootstrapper creates a root, the root's code is 1000
\* if no root exists and otherwise 1000 * (c / 1000 + 1) for the numerically
\* largest code c among the existing roots; and in every reachable state the
\* root codes are multiples of 1000 and pairwise distinct.
C24_RootCodes ==
  /\ BootstrapCodes([store |-> accounts, nextId |-> nextId], 1)
  /\ \A a \in Roots(accounts) : ParseInt(a.code) % 1000 = 0
  /\ \A a \in Roots(accounts), b \in Roots(accounts) : a.id # b.id => a.code # b.code

\* The root named root_name has this code, and a non-root account below it,
\* if there is one, has the code first_child.
RootAndFirstChild(store, root_name, code, first_child) ==
  /\ \E r \in Roots(store) : r.name = root_name /\ r.code = code
  /\ \A r \in Roots(store), n \in NonRoots(store) :
       (r.name = root_name /\ n.parent_id = r.id) => n.code = first_child

\* C25 as stated: after a create that runs the bootstrapper on the empty
\* store (one that passes the handler's own checks) the Assets root has code
\* 1000 and the Expenses root has code 2000, and the account the create adds
\* under Assets has code 1001, under Expenses 2001.
C25_AssetsAndExpensesCodes ==
  [][(accounts = {} /\ ops' # ops /\ last'.op = "create"
      /\ last'.result \notin HandlerRejections) =>
       /\ RootAndFirstChild(accounts', Assets, <<"1","0","0","0">>, <<"1","0","0","1">>)
       /\ RootAndFirstChild(accounts', Expenses, <<"2","0","0","0">>, <<"2","0","0","1">>)]_vars

\* C25 as amended: the bootstrapper creates the roots in the order Assets,
\* Liability & Equity, Expenses, Revenue with the codes 1000, 2000, 3000,
\* 4000, so the first account under Assets gets 1001 and the first account
\* under Expenses gets 3001.
C25_RootCodesInBootstrapOrder ==
  [][(accounts = {} /\ ops' # ops /\ last'.op = "create"
      /\ last'.result \notin HandlerRejections) =>
       /\ Cardinality(Roots(accounts')) = 4
       /\ RootAndFirstChild(accounts', Assets, <<"1","0","0","0">>, <<"1","0","0","1">>)
       /\ RootAndFirstChild(accounts', LiabilityEquity, <<"2","0","0","0">>, <<"2","0","0","1">>)
       /\ RootAndFirstChild(accounts', Expenses, <<"3","0","0","0">>, <<"3","0","0","1">>)
       /\ RootAndFirstChild(accounts', Revenue, <<"4","0","0","0">>, <<"4","0","0","1">>)]_vars

\* C25 witness: the first request, a create under Expenses, has added the
\* account 3001.
C25_Witness ==
  /\ ops = 1 /\ last.op = "create" /\ last.result = "Created"
  /\ \E r \in Roots(accounts), n \in NonRoots(accounts) :
       r.name = Expenses /\ n.parent_id = r.id /\ n.code = <<"3","0","0","1">>

\* The walk of get_root_account from account a reaches an account without
\* parent in at most `steps` steps, every parent reference on the way
\* resolving to exactly one account.
RECURSIVE WalkEnds(_, _, _)
WalkEnds(store, a, steps) ==
  IF a.parent_id = NoneId THEN TRUE
  ELSE IF steps = 0 THEN FALSE
  ELSE /\ Cardinality({p \in store : p.id = a.parent_id}) = 1
       /\ WalkEnds(store, ById(store, a.parent_id), steps - 1)

\* C26: in every state reachable by create, update and delete the parent
\* reference of every non-root account resolves to an existing account, the
\* parent relation is acyclic, and the root-ancestor walk from every account
\* ends at an account with parent = none.
C26_ParentsResolve ==
  /\ \A a \in NonRoots(accounts) : a.parent_id \in Ids(accounts) /\ a.parent_id # a.id
  /\ \A a \in accounts : WalkEnds(accounts, a, Cardinality(accounts) - 1)
  /\ \A a \in accounts : get_root_account(accounts, a).parent_id = NoneId

\* C26 witness: the delete of an account with a child has been refused in a
\* state with an account two levels below a root.
C26_Witness ==
  /\ last.op = "delete" /\ last.result = "IsParent"
  /\ \E a \in accounts, p \in NonRoots(accounts) : a.parent_id = p.id

\* C27: in every state reachable by create, update and delete, every
\* non-root account whose name contains "cost of goods sold" or "rebate"
\* (case-insensitively) has cc_required = true.
C27_CogsAndRebateRequireCostCenter ==
  \A a \in NonRoots(accounts) :
    (Contains(Lower(a.name), cost_of_goods_sold) \/ Contains(Lower(a.name), rebate))
      => a.cc_required

\* C28: in every reachable state, an update whose new name equals the
\* account's current name after stripping and lower-casing makes no rename:
\* the stored name keeps its casing, the request is not refused for journal
\* entries or for an existing name, "name" is not among the changed fields,
\* and when the request changes no other field the result is "no changes"
\* and the table stays as it is; all this also for an account that journal
\* entries name.
C28_CaseOnlyRenameIsNoChange ==
  \A id \in Ids(accounts), f \in CaseOnlyUpdateFields :
    LET account == ById(accounts, id)
        r == AccountResourceUpdate_put(accounts, journal, txns, id, f)
        other_differs ==
          f.cc_required # "Absent" /\ (f.cc_required = "True") # account.cc_required
    IN Lower(Strip(f.name)) = Lower(account.name) =>
         /\ r.result \notin {"NameInUse", "AccountExists", "NameEmpty", "NameNotString"}
         /\ \E b \in r.store : b.id = id /\ b.name = account.name
         /\ "name" \notin Reported(r.changes)
         /\ ~other_differs => r.result = "NoChanges" /\ r.store = accounts

\* C28 witness: an update has answered "no changes" in a state where a
\* journal entry names the non-root account Cash, whose name the requests
\* carry in lower case with surrounding blanks.
C28_Witness ==
  /\ last.op = "update" /\ last.result = "NoChanges" /\ last.changes = <<>>
  /\ \E a \in NonRoots(accounts), e \in journal :
       a.name = Cash /\ (e.debit = a.name \/ e.credit = a.name)

\* C21: two creates under one parent that both read the last sibling code
\* before either inserts commit accounts with the same code; a create
\* commits a code another account has only in this way (the other account
\* was inserted under the same parent after the create had read the last
\* sibling code) and only when the table has no unique constraint on code:
\* with the constraint no state has two accounts with one code.
C21_SameCodeOnlyByRaceWithoutConstraint ==
  /\ [](schema.unique_code =>
          \A a \in accounts, b \in accounts : a.id # b.id => a.code # b.code)
  /\ [][\A request \in pending :
          (/\ request.op = "create"
           /\ pending' = pending \ {request}
           /\ nextId' = nextId + 1
           /\ \E a \in accounts : a.code = request.row.code) =>
            /\ ~schema.unique_code
            /\ \A a \in accounts :
                 a.code = request.row.code =>
                   a.parent_id = request.row.parent_id /\ a.id >= request.row.id]_vars

\* C21 witness: both creates have committed, and two accounts under one
\* parent have the same code.
C21_Witness ==
  /\ pending = {} /\ last.op = "create" /\ last.result = "Created"
  /\ \E a \in NonRoots(accounts), b \in NonRoots(accounts) :
       a.id # b.id /\ a.parent_id = b.parent_id /\ a.code = b.code

\* C30: when no request is in flight any more, every non-root account has a
\* parent that exists, also after a delete of an account has run
\* concurrently with the create of a child under it.
C30_NoOrphanAfterConcurrentDelete ==
  pending = {} => \A a \in NonRoots(accounts) : a.parent_id \in Ids(accounts)

====
